---------------------------- MODULE Spec2Model ----------------------------
(***************************************************************************)
(* Model of the training tracker (training_cli): the dataset kept in       *)
(* ~/.training_data.json, the commands add / goal / list / graph that      *)
(* read and write it, and the helpers calculate_total_by_exercise and      *)
(* calculate_progress.                                                     *)
(*                                                                         *)
(* Calendar days are integers (day 0 is 2023-01-01, a Sunday); the code    *)
(* compares zero-padded YYYY-MM-DD strings, which orders them as the days  *)
(* are ordered.  Python ints are TLA+ integers.  Python floats (the        *)
(* --weight option, every result of "/") are IEEE-754 doubles, modelled    *)
(* exactly: a double is [s, m, e] with value (-1)^s * m * 2^e, m an odd    *)
(* natural below 2^53 written as a little-endian sequence of limbs.        *)
(***************************************************************************)
EXTENDS Integers, Sequences, FiniteSets, TLC

(***************************************************************************)
(* Naturals of any size: little-endian sequences of limbs in 0..Base-1,    *)
(* the last limb nonzero; zero is <<>>.                                    *)
(***************************************************************************)
LimbBits == 15

Pow2(k) ==
    <<1, 2, 4, 8, 16, 32, 64, 128, 256, 512, 1024, 2048, 4096, 8192,
      16384, 32768>>[k + 1]

Base == Pow2(LimbBits)

Limb(b, i) == IF i >= 1 /\ i <= Len(b) THEN b[i] ELSE 0

Trim(b) ==
    IF \A i \in 1..Len(b) : b[i] = 0 THEN <<>>
    ELSE SubSeq(b, 1, CHOOSE i \in 1..Len(b) :
                        b[i] # 0 /\ \A j \in (i + 1)..Len(b) : b[j] = 0)

RECURSIVE BigOfNat(_)
BigOfNat(n) ==
    IF n = 0 THEN <<>> ELSE <<n % Base>> \o BigOfNat(n \div Base)

RECURSIVE NatFrom(_, _)
NatFrom(b, i) ==
    IF i > Len(b) THEN 0 ELSE b[i] + Base * NatFrom(b, i + 1)

\* the value of b as an integer, for b below 2^31
NatOfBig(b) == NatFrom(b, 1)

RECURSIVE AddC(_, _, _, _)
AddC(a, b, i, c) ==
    IF i > Len(a) /\ i > Len(b) THEN (IF c = 0 THEN <<>> ELSE <<c>>)
    ELSE LET t == Limb(a, i) + Limb(b, i) + c
         IN  <<t % Base>> \o AddC(a, b, i + 1, t \div Base)

BigAdd(a, b) == AddC(a, b, 1, 0)

RECURSIVE SubB(_, _, _, _)
SubB(a, b, i, br) ==
    IF i > Len(a) THEN <<>>
    ELSE LET t == a[i] - Limb(b, i) - br
         IN  <<t % Base>> \o SubB(a, b, i + 1, IF t < 0 THEN 1 ELSE 0)

\* a - b for a >= b
BigSub(a, b) == Trim(SubB(a, b, 1, 0))

\* -1, 0 or 1 as a < b, a = b, a > b
BigCmp(a, b) ==
    IF Len(a) # Len(b) THEN (IF Len(a) > Len(b) THEN 1 ELSE -1)
    ELSE IF a = b THEN 0
    ELSE LET i == CHOOSE i \in 1..Len(a) :
                     a[i] # b[i] /\ \A j \in (i + 1)..Len(a) : a[j] = b[j]
         IN  IF a[i] > b[i] THEN 1 ELSE -1

RECURSIVE MulC(_, _, _, _)
MulC(a, c, i, carry) ==
    IF i > Len(a) THEN (IF carry = 0 THEN <<>> ELSE <<carry>>)
    ELSE LET t == a[i] * c + carry
         IN  <<t % Base>> \o MulC(a, c, i + 1, t \div Base)

\* a * c for c in 0..Base
MulSmall(a, c) == IF c = 0 THEN <<>> ELSE MulC(a, c, 1, 0)

RECURSIVE MulFrom(_, _, _)
MulFrom(a, b, i) ==
    IF i > Len(b) THEN <<>>
    ELSE LET rest == MulFrom(a, b, i + 1)
         IN  BigAdd(MulSmall(a, b[i]),
                    IF rest = <<>> THEN <<>> ELSE <<0>> \o rest)

BigMul(a, b) == MulFrom(a, b, 1)

\* a * 2^k
ShlBits(a, k) ==
    IF a = <<>> THEN <<>>
    ELSE [i \in 1..(k \div LimbBits) |-> 0] \o MulSmall(a, Pow2(k % LimbBits))

\* a \div 2^k
ShrBits(a, k) ==
    LET d == k \div LimbBits
        j == k % LimbBits
    IN  IF Len(a) <= d THEN <<>>
        ELSE Trim([i \in 1..(Len(a) - d) |->
                     (a[i + d] \div Pow2(j))
                     + (Limb(a, i + d + 1) % Pow2(j)) * Pow2(LimbBits - j)])

\* bit i of a, bit 0 the lowest
BitAt(a, i) == (Limb(a, i \div LimbBits + 1) \div Pow2(i % LimbBits)) % 2

BitLen(a) ==
    IF a = <<>> THEN 0
    ELSE (Len(a) - 1) * LimbBits
         + (CHOOSE k \in 1..LimbBits :
              Pow2(k - 1) <= a[Len(a)] /\ a[Len(a)] < Pow2(k))

\* the number of zero bits below the lowest 1 bit of a # 0
LowZeros(a) ==
    CHOOSE i \in 0..(BitLen(a) - 1) :
        BitAt(a, i) = 1 /\ \A j \in 0..(i - 1) : BitAt(a, j) = 0

\* the greatest digit q >= acc with b * q <= r, bits t..0 still to decide
RECURSIVE Digit(_, _, _, _)
Digit(r, b, t, acc) ==
    IF t < 0 THEN acc
    ELSE IF BigCmp(MulSmall(b, acc + Pow2(t)), r) <= 0
         THEN Digit(r, b, t - 1, acc + Pow2(t))
         ELSE Digit(r, b, t - 1, acc)

\* long division of a by b (b # 0), from limb i of a downward, r the running
\* remainder: [q |-> quotient limbs 1..i, r |-> remainder]
RECURSIVE DivLimb(_, _, _, _)
DivLimb(a, b, i, r) ==
    IF i = 0 THEN [q |-> <<>>, r |-> r]
    ELSE LET r2   == Trim(<<a[i]>> \o r)
             q    == Digit(r2, b, LimbBits - 1, 0)
             rest == DivLimb(a, b, i - 1, BigSub(r2, MulSmall(b, q)))
         IN  [q |-> rest.q \o <<q>>, r |-> rest.r]

\* short division of a by a one-limb c # 0, from limb i of a downward, r the
\* running remainder
RECURSIVE DivSmall(_, _, _, _)
DivSmall(a, c, i, r) ==
    IF i = 0 THEN [q |-> <<>>, r |-> r]
    ELSE LET n    == r * Base + a[i]
             rest == DivSmall(a, c, i - 1, n % c)
         IN  [q |-> rest.q \o <<n \div c>>, r |-> rest.r]

BigDivMod(a, b) ==
    IF Len(b) = 1
    THEN LET d == DivSmall(a, b[1], Len(a), 0)
         IN  [q |-> Trim(d.q), r |-> BigOfNat(d.r)]
    ELSE LET d == DivLimb(a, b, Len(a), <<>>)
         IN  [q |-> Trim(d.q), r |-> d.r]

(***************************************************************************)
(* IEEE-754 binary64 arithmetic, round to nearest, ties to even: a double  *)
(* is [s, m, e], its value (-1)^s * m * 2^e, m odd and below 2^53.  The    *)
(* exponent range is not modelled: no value of the model comes near        *)
(* overflow or the subnormals.  The sign of zero is not kept.              *)
(***************************************************************************)
MantissaBits == 53

FZero == [s |-> 0, m |-> <<>>, e |-> 0]

\* the one representation of (-1)^s * m * 2^e: m odd
Canon(s, m, e) ==
    IF m = <<>> THEN FZero
    ELSE LET z == LowZeros(m)
         IN  [s |-> s, m |-> ShrBits(m, z), e |-> e + z]

\* the double nearest to (-1)^s * m * 2^e
Round(s, m, e) ==
    IF BitLen(m) <= MantissaBits THEN Canon(s, m, e)
    ELSE LET k      == BitLen(m) - MantissaBits
             kept   == ShrBits(m, k)
             guard  == BitAt(m, k - 1)
             sticky == \E i \in 0..(k - 2) : BitAt(m, i) = 1
             up     == guard = 1 /\ (sticky \/ BitAt(m, k) = 1)
         IN  Canon(s, IF up THEN BigAdd(kept, <<1>>) ELSE kept, e + k)

\* float(n) for an int n
FromInt(n) ==
    IF n < 0 THEN Canon(1, BigOfNat(-n), 0) ELSE Canon(0, BigOfNat(n), 0)

FNeg(x) == IF x.m = <<>> THEN x ELSE [x EXCEPT !.s = 1 - x.s]

FMul(x, y) == Round((x.s + y.s) % 2, BigMul(x.m, y.m), x.e + y.e)

FAdd(x, y) ==
    IF x.m = <<>> THEN y
    ELSE IF y.m = <<>> THEN x
    ELSE LET e == IF x.e < y.e THEN x.e ELSE y.e
             a == ShlBits(x.m, x.e - e)
             b == ShlBits(y.m, y.e - e)
             c == BigCmp(a, b)
         IN  IF x.s = y.s THEN Round(x.s, BigAdd(a, b), e)
             ELSE IF c = 0 THEN FZero
             ELSE IF c > 0 THEN Round(x.s, BigSub(a, b), e)
             ELSE Round(y.s, BigSub(b, a), e)

\* x / y for y # 0: the quotient to 55 bits or more, and below it one bit
\* that is 1 when the division left a remainder, then rounded
FDiv(x, y) ==
    IF x.m = <<>> THEN FZero
    ELSE LET want == BitLen(y.m) + MantissaBits + 2 - BitLen(x.m)
             sh   == IF want > 0 THEN want ELSE 0
             d    == BigDivMod(ShlBits(x.m, sh), y.m)
             q2   == MulSmall(d.q, 2)
         IN  Round((x.s + y.s) % 2,
                   IF d.r = <<>> THEN q2 ELSE BigAdd(q2, <<1>>),
                   x.e - y.e - sh - 1)

\* x < y
FLt(x, y) == LET d == FAdd(x, FNeg(y)) IN d.m # <<>> /\ d.s = 1

\* int(x): truncation toward zero
FTrunc(x) ==
    LET mag == IF x.e >= 0 THEN NatOfBig(ShlBits(x.m, x.e))
               ELSE NatOfBig(ShrBits(x.m, -x.e))
    IN  IF x.s = 1 THEN -mag ELSE mag

(***************************************************************************)
(* Python values.  None and an option that was not given are <<>>, a given *)
(* value v is <<v>>.  A dict with string keys is a function; d.get(k, v)   *)
(* is Get(d, k, v).                                                        *)
(***************************************************************************)
None == <<>>

Some(v) == <<v>>

Get(d, k, default) == IF k \in DOMAIN d THEN d[k] ELSE default

EmptyDict == [k \in {} |-> 0]

\* x > 0 for a float x
FPos(x) == x.m # <<>> /\ x.s = 0

(***************************************************************************)
(* Bounds of the model.                                                    *)
(***************************************************************************)
\* the last calendar day the clock reaches
MaxDay == 2

\* entries plus goal-history snapshots the dataset may hold
MaxRecords == 3

\* 2023-01-01, the effective date of the seeded goals and the date assumed
\* for a snapshot that records none
EpochDay == 0

Days == 0..MaxDay

(***************************************************************************)
(* The dataset of ~/.training_data.json and the clock.                     *)
(*   entries        data["entries"]: a dict from date to the list of that  *)
(*                  date's entries, kept in insertion order as a sequence  *)
(*                  of [date, list]                                        *)
(*   goals          data["goals"]: exercise type -> goal                   *)
(*   goal_history   data["goal_history"]: exercise type -> list of goals   *)
(*   exercise_types data["exercise_types"]: exercise type -> unit          *)
(*   today          the day get_today_date() returns                       *)
(*   out            what the last command computed and showed              *)
(*   procs          the commands that run at the same time as processes of *)
(*                  their own: where each is and the dataset it holds      *)
(* An entry's timestamp (wall-clock time of day) is not modelled.          *)
(***************************************************************************)
VARIABLES today, entries, goals, goal_history, exercise_types, out, procs

vars == <<today, entries, goals, goal_history, exercise_types, out, procs>>

data == <<entries, goals, goal_history, exercise_types>>

\* the processes of the commands that run at the same time
Procs == {1, 2}

\* no command has started
NoProcs == [p \in Procs |-> [pc |-> "idle"]]

DefaultGoals ==
    [t \in {"pushup", "squat", "curl"} |->
        [daily |-> CASE t = "pushup" -> 50 [] t = "squat" -> 30 [] OTHER -> 20,
         sets |-> 3,
         weight |-> IF t = "curl" THEN FromInt(5) ELSE FZero,
         effective_date |-> EpochDay]]

DefaultExerciseTypes ==
    [t \in {"pushup", "squat", "curl", "plank", "run"} |->
        CASE t = "plank" -> "seconds" [] t = "run" -> "km" [] OTHER -> "reps"]

\* date in data["entries"]
HasDate(es, date) == \E i \in 1..Len(es) : es[i].date = date

\* data["entries"][date], and data["entries"].get(date, [])
EntriesOn(es, date) ==
    IF HasDate(es, date)
    THEN es[CHOOSE i \in 1..Len(es) : es[i].date = date].list
    ELSE <<>>

\* the entry put first in the list of the date
AppendEntry_First(es, date, entry) ==
    IF HasDate(es, date)
    THEN [i \in 1..Len(es) |->
            IF es[i].date = date
            THEN [es[i] EXCEPT !.list = <<entry>> \o @]
            ELSE es[i]]
    ELSE Append(es, [date |-> date, list |-> <<entry>>])

\* data["entries"][date].append(entry), the date created if absent
AppendEntry(es, date, entry) ==
    IF HasDate(es, date)
    THEN [i \in 1..Len(es) |->
            IF es[i].date = date
            THEN [es[i] EXCEPT !.list = Append(@, entry)]
            ELSE es[i]]
    ELSE Append(es, [date |-> date, list |-> <<entry>>])

RECURSIVE CountEntries(_, _)
CountEntries(es, i) ==
    IF i > Len(es) THEN 0 ELSE Len(es[i].list) + CountEntries(es, i + 1)

RECURSIVE SumLen(_, _)
SumLen(f, S) ==
    IF S = {} THEN 0
    ELSE LET k == CHOOSE k \in S : TRUE
         IN  Len(f[k]) + SumLen(f, S \ {k})

Records == CountEntries(entries, 1) + SumLen(goal_history, DOMAIN goal_history)

(***************************************************************************)
(* helpers.py                                                              *)
(***************************************************************************)
\* int((num / den) * 100), not capped at 100
Percent_Uncapped(num, den) == FTrunc(FMul(FDiv(num, den), FromInt(100)))

\* min(100, int((num / den) * 100)) for den # 0
Percent(num, den) ==
    LET p == FTrunc(FMul(FDiv(num, den), FromInt(100)))
    IN  IF p < 100 THEN p ELSE 100

\* AddToTotals with the entry's amount added once, not once per set
AddToTotals_OncePerEntry(totals, entry) ==
    LET exercise_type == entry.exercise_type
        amount        == entry.amount
        weight        == Get(entry, "weight", FZero)
        sets          == Get(entry, "sets", 1)
        weight_total  == FMul(FMul(FromInt(amount), weight), FromInt(sets))
        t0 == IF exercise_type \in DOMAIN totals THEN totals
              ELSE totals @@ (exercise_type :>
                     [amount |-> 0, weight_total |-> FZero, sets_total |-> 0])
    IN  [t0 EXCEPT ![exercise_type] =
            [amount       |-> @.amount + amount,
             weight_total |-> FAdd(@.weight_total, weight_total),
             sets_total   |-> @.sets_total + sets]]

\* the body of the loop of calculate_total_by_exercise: one entry added to
\* the totals
AddToTotals(totals, entry) ==
    LET exercise_type == entry.exercise_type
        amount        == entry.amount
        weight        == Get(entry, "weight", FZero)
        sets          == Get(entry, "sets", 1)
        weight_total  == FMul(FMul(FromInt(amount), weight), FromInt(sets))
        t0 == IF exercise_type \in DOMAIN totals THEN totals
              ELSE totals @@ (exercise_type :>
                     [amount |-> 0, weight_total |-> FZero, sets_total |-> 0])
    IN  [t0 EXCEPT ![exercise_type] =
            [amount       |-> @.amount + amount * sets,
             weight_total |-> FAdd(@.weight_total, weight_total),
             sets_total   |-> @.sets_total + sets]]

\* "for entry in entries[date]", from entry i
RECURSIVE TotalsLoop(_, _, _)
TotalsLoop(list, i, totals) ==
    IF i > Len(list) THEN totals
    ELSE TotalsLoop(list, i + 1, AddToTotals(totals, list[i]))

calculate_total_by_exercise(es, date) ==
    IF HasDate(es, date) THEN TotalsLoop(EntriesOn(es, date), 1, EmptyDict)
    ELSE EmptyDict

\* one pass of the loop of calculate_progress: the progress of one exercise
\* type, raised = TRUE when the pass divides by zero
ProgressOf(totals, exercise_type, goal_data) ==
    LET daily_goal  == Get(goal_data, "daily", 0)
        weekly_goal == Get(goal_data, "weekly", 0)
        goal_sets   == Get(goal_data, "sets", 1)
        goal_weight == Get(goal_data, "weight", FZero)
        logged      == exercise_type \in DOMAIN totals
        use_daily   == daily_goal > 0 /\ logged
        use_weekly  == ~use_daily /\ weekly_goal > 0 /\ logged
        total_goal  == IF use_daily THEN daily_goal * goal_sets
                       ELSE weekly_goal * goal_sets
        total_weight_goal ==
            IF daily_goal > 0
            THEN FMul(FromInt(daily_goal * goal_sets), goal_weight)
            ELSE FMul(FromInt(weekly_goal * goal_sets), goal_weight)
        use_weight  == FPos(goal_weight) /\ logged /\ FPos(total_weight_goal)
    IN  IF (use_daily \/ use_weekly) /\ total_goal = 0
        THEN [raised |-> TRUE]
        ELSE [raised |-> FALSE,
              progress |->
                 [reps   |-> IF use_daily \/ use_weekly
                             THEN Percent(FromInt(totals[exercise_type].amount),
                                          FromInt(total_goal))
                             ELSE 0,
                  weight |-> IF use_weight
                             THEN Percent(totals[exercise_type].weight_total,
                                          total_weight_goal)
                             ELSE 0,
                  weekly_goal_only |-> daily_goal = 0 /\ weekly_goal > 0,
                  weekly_goal_met  |->
                      use_weekly /\ totals[exercise_type].amount >= total_goal]]

\* [raised |-> TRUE] when a ZeroDivisionError leaves the function, else the
\* dict returned
calculate_progress(totals, gs) ==
    LET each == [t \in DOMAIN gs |-> ProgressOf(totals, t, gs[t])]
    IN  IF \E t \in DOMAIN gs : each[t].raised
        THEN [raised |-> TRUE]
        ELSE [raised |-> FALSE,
              progress |-> [t \in DOMAIN gs |-> each[t].progress]]

(***************************************************************************)
(* The commands                                                            *)
(***************************************************************************)
\* the data file is absent, and the first load_data writes the seeded one.
\* Every goal the commands write has sets, weight and effective_date, so the
\* migration of later loads leaves the file as it is.
Init ==
    /\ today = EpochDay
    /\ entries = <<>>
    /\ goals = DefaultGoals
    /\ goal_history = EmptyDict
    /\ exercise_types = DefaultExerciseTypes
    /\ out = [cmd |-> "none"]
    /\ procs = NoProcs

\* midnight passes
AdvanceDay ==
    /\ today < MaxDay
    /\ today' = today + 1
    /\ out' = [cmd |-> "none"]
    /\ UNCHANGED <<data, procs>>

\* d[k] = v
SetKey(d, k, v) == [x \in DOMAIN d \cup {k} |-> IF x = k THEN v ELSE d[x]]

\* del d[k]
DelKey(d, k) == [x \in DOMAIN d \ {k} |-> d[x]]

\* the goal put in front of the type's history
StoredInHistory_InFront(history, ex, goal_data) ==
    SetKey(history, ex, <<goal_data>> \o Get(history, ex, <<>>))

\* goal.py, "Store the goal in history": data["goal_history"][ex], created
\* empty if absent, with the goal appended
StoredInHistory(history, ex, goal_data) ==
    SetKey(history, ex, Append(Get(history, ex, <<>>), goal_data))

\* the goal stamped with 2023-01-01 whatever the day
Stamped_Epoch(goal_data, day) == SetKey(goal_data, "effective_date", EpochDay)

\* goal.py, "Update effective date": data["goals"][ex]["effective_date"] =
\* today
Stamped(goal_data, day) == SetKey(goal_data, "effective_date", day)

\* goal.py: training goal [EXERCISE_TYPE] [--daily N] [--weekly N] [--sets N]
\* [--weight W] [--list] [--delete]
Goal(exercise_type, daily, weekly, sets, weight, list_goals, delete) ==
    LET ex      == exercise_type[1]
        \* what the command printed, with the arguments it was run with
        said(status) == [cmd |-> "goal", status |-> status,
                         exercise_type |-> exercise_type,
                         options |-> ~(daily = None /\ weekly = None
                                       /\ sets = None /\ weight = None),
                         delete |-> delete]
        no_opts == daily = None /\ weekly = None /\ sets = None /\ weight = None
        stub    == [sets |-> 3, weight |-> FZero, effective_date |-> today]
        \* the goal after "Initialize goals for this exercise type"
        current_goal == Get(goals, ex, stub)
        g1 == IF daily = None THEN current_goal
              ELSE SetKey(current_goal, "daily", daily[1])
        g2 == IF weekly = None THEN g1 ELSE SetKey(g1, "weekly", weekly[1])
        g3 == IF sets = None THEN g2 ELSE SetKey(g2, "sets", sets[1])
        g4 == IF weight = None THEN g3 ELSE SetKey(g3, "weight", weight[1])
        goal_changed == ~no_opts
        g5 == IF goal_changed THEN Stamped(g4, today) ELSE g4
    IN  IF list_goals \/ (exercise_type = None /\ no_opts /\ ~delete)
        THEN /\ out' = said("listed")
             /\ UNCHANGED <<today, data, procs>>
        ELSE IF exercise_type = None
        THEN /\ out' = said("type required")
             /\ UNCHANGED <<today, data, procs>>
        ELSE IF ex \notin DOMAIN exercise_types
        THEN /\ out' = said("unknown type")
             /\ UNCHANGED <<today, data, procs>>
        ELSE IF delete
        THEN IF ex \in DOMAIN goals
             THEN /\ Records < MaxRecords
                  /\ goal_history' = StoredInHistory(goal_history, ex, goals[ex])
                  /\ goals' = DelKey(goals, ex)
                  /\ out' = said("deleted")
                  /\ UNCHANGED <<today, entries, exercise_types, procs>>
             ELSE /\ out' = said("no goal")
                  /\ UNCHANGED <<today, data, procs>>
        ELSE /\ goal_changed => Records < MaxRecords
             /\ goals' = SetKey(goals, ex, g5)
             /\ goal_history' =
                   IF goal_changed
                   THEN StoredInHistory(goal_history, ex, current_goal)
                   ELSE goal_history
             /\ out' = said(IF goal_changed THEN "set" ELSE "shown")
             /\ UNCHANGED <<today, entries, exercise_types, procs>>

\* the loop of add over the date's entries, from entry i: the totals of one
\* exercise type
RECURSIVE AddTotals(_, _, _, _)
AddTotals(list, i, exercise_type, acc) ==
    IF i > Len(list) THEN acc
    ELSE LET entry        == list[i]
             entry_amount == entry.amount
             entry_weight == Get(entry, "weight", FZero)
             entry_sets   == Get(entry, "sets", 1)
         IN  AddTotals(list, i + 1, exercise_type,
                IF entry.exercise_type = exercise_type
                THEN [total_reps |-> acc.total_reps + entry_amount * entry_sets,
                      total_weight_lifted |->
                         FAdd(acc.total_weight_lifted,
                              FMul(FMul(FromInt(entry_amount), entry_weight),
                                   FromInt(entry_sets)))]
                ELSE acc)

\* a --date text that strptime(date_str, "%Y-%m-%d") rejects, such as
\* 2023-13-45; a text it accepts is Some(day)
Malformed == <<13, 45>>

\* helpers.py: the date text parses as YYYY-MM-DD
validate_date(date_str) == Len(date_str) = 1

\* add.py, "Ask for unit type": the unit of a custom exercise type
UnitOptions == <<"reps", "seconds", "km">>

ChosenUnit(unit_choice) ==
    IF unit_choice < 1 \/ unit_choice > Len(UnitOptions) THEN "reps"
    ELSE UnitOptions[unit_choice]

\* add.py, "Create entry"
NewEntry(exercise_type, amount, unit, entry_weight, entry_sets) ==
    [exercise_type |-> exercise_type,
     amount |-> amount,
     unit   |-> unit,
     weight |-> entry_weight,
     sets   |-> entry_sets]

\* a custom exercise type defined whether or not --custom was given
WithCustom_Always(types, exercise_type, custom, unit_choice) ==
    IF exercise_type \notin DOMAIN types
    THEN SetKey(types, exercise_type, ChosenUnit(unit_choice))
    ELSE types

\* add.py, "Handle custom exercise type": data["exercise_types"] after it
WithCustom(types, exercise_type, custom, unit_choice) ==
    IF custom /\ exercise_type \notin DOMAIN types
    THEN SetKey(types, exercise_type, ChosenUnit(unit_choice))
    ELSE types

\* add.py: training add EXERCISE_TYPE [--date D] [--reps N | --time N]
\* [--weight W] [--sets N] [--custom]; amount and sets are the option or the
\* prompt's answer, unit_choice the answer to the unit prompt of --custom
Add(exercise_type, date, amount, weight, sets, custom, unit_choice) ==
    LET the_date == IF date = None THEN today ELSE date[1]
        types    == WithCustom(exercise_types, exercise_type, custom, unit_choice)
        \* what the command printed, with the arguments it was run with
        said(printed) == [cmd |-> "add", exercise_type |-> exercise_type,
                          date |-> IF date = None THEN Some(today) ELSE date,
                          custom |-> custom] @@ printed
        has_goal == exercise_type \in DOMAIN goals
        entry_weight ==
            IF weight # None THEN weight[1]
            ELSE IF has_goal /\ "weight" \in DOMAIN goals[exercise_type]
                 THEN goals[exercise_type].weight
                 ELSE FZero
        entry == NewEntry(exercise_type, amount, types[exercise_type],
                          entry_weight, sets)
        saved      == AppendEntry(entries, the_date, entry)
        daily_goal == IF has_goal THEN Get(goals[exercise_type], "daily", 0)
                      ELSE 0
        goal_sets  == Get(goals[exercise_type], "sets", 1)
        sums       == AddTotals(EntriesOn(saved, the_date), 1, exercise_type,
                         [total_reps |-> 0, total_weight_lifted |-> FZero])
    IN  IF date # None /\ ~validate_date(date)
        THEN /\ out' = said([status |-> "bad date"])
             /\ UNCHANGED <<today, data, procs>>
        ELSE IF exercise_type \notin DOMAIN types
        THEN /\ out' = said([status |-> "unknown type"])
             /\ UNCHANGED <<today, data, procs>>
        ELSE /\ Records < MaxRecords
             /\ entries' = saved
             /\ exercise_types' = types
             /\ out' =
                  IF daily_goal > 0
                  THEN IF daily_goal * goal_sets = 0
                       THEN said([status |-> "ZeroDivisionError"])
                       ELSE said([status |-> "progress",
                                  progress |-> Percent(FromInt(sums.total_reps),
                                                 FromInt(daily_goal * goal_sets)),
                                  total_reps |-> sums.total_reps])
                  ELSE said([status |-> "added"])
             /\ UNCHANGED <<today, goals, goal_history, procs>>

\* a missing effective date read as a day before every day of the model
EffectiveDate_Earliest(g) == Get(g, "effective_date", EpochDay - 7)

\* the sort key of all_goals.sort in graph
EffectiveDate(g) == Get(g, "effective_date", EpochDay)

\* g put in front of the elements of the sorted list whose key is equal
InsertSorted_BeforeEqual(sorted, g) ==
    LET n == Cardinality({i \in 1..Len(sorted) :
                            EffectiveDate(sorted[i]) < EffectiveDate(g)})
    IN  SubSeq(sorted, 1, n) \o <<g>> \o SubSeq(sorted, n + 1, Len(sorted))

\* list.sort(key): g put behind the elements of the sorted list whose key is
\* not greater
InsertSorted(sorted, g) ==
    LET n == Cardinality({i \in 1..Len(sorted) :
                            EffectiveDate(sorted[i]) <= EffectiveDate(g)})
    IN  SubSeq(sorted, 1, n) \o <<g>> \o SubSeq(sorted, n + 1, Len(sorted))

RECURSIVE SortFrom(_, _, _)
SortFrom(seq, i, acc) ==
    IF i > Len(seq) THEN acc ELSE SortFrom(seq, i + 1, InsertSorted(acc, seq[i]))

\* all_goals left in the order history + [goal_data], not sorted
AllGoals_Unsorted(history, goal_data) == Append(history, goal_data)

\* all_goals = goal_history + [goal_data]; all_goals.sort(key=effective date)
AllGoals(history, goal_data) == SortFrom(Append(history, goal_data), 1, <<>>)

\* the loop stopped at the first goal effective on or before the date
ApplicableGoal_First(all_goals, date) ==
    LET S == {i \in 1..Len(all_goals) : EffectiveDate(all_goals[i]) <= date}
    IN  IF S = {} THEN None
        ELSE Some(all_goals[CHOOSE i \in S : \A j \in S : i <= j])

\* the loop "for goal in all_goals" of graph: None, or the last goal of the
\* sorted list that is effective on or before the date
ApplicableGoal(all_goals, date) ==
    LET S == {i \in 1..Len(all_goals) : EffectiveDate(all_goals[i]) <= date}
    IN  IF S = {} THEN None
        ELSE Some(all_goals[CHOOSE i \in S : \A j \in S : j <= i])

RECURSIVE SumReps(_, _, _)
SumReps(list, i, exercise) ==
    IF i > Len(list) THEN 0
    ELSE (IF list[i].exercise_type = exercise
          THEN list[i].amount * Get(list[i], "sets", 1) ELSE 0)
         + SumReps(list, i + 1, exercise)

RECURSIVE SumRange(_, _, _, _)
SumRange(es, exercise, from, to) ==
    IF from > to THEN 0
    ELSE SumReps(EntriesOn(es, from), 1, exercise)
         + SumRange(es, exercise, from + 1, to)

\* graph.py: training graph --exercise E --days N (metric reps, one exercise
\* type, no --month): the bars are the daily totals of the last N days, and
\* the goal line is drawn from the goal applicable on the first day
Graph(exercise, days) ==
    LET start_date == today - (days - 1)
        date_range == start_date..today
        all_goals  == AllGoals(Get(goal_history, exercise, <<>>), goals[exercise])
    IN  /\ out' =
             IF SumRange(entries, exercise, start_date, today) = 0
             THEN [cmd |-> "graph", status |-> "no data"]
             ELSE IF exercise \notin DOMAIN goals
             THEN [cmd |-> "graph", status |-> "plotted", resolved |-> FALSE,
                   exercise |-> exercise,
                   start_date |-> start_date]
             ELSE [cmd |-> "graph", status |-> "plotted", resolved |-> TRUE,
                   exercise |-> exercise,
                   start_date |-> start_date,
                   applicable_goal |->
                       [d \in date_range |-> ApplicableGoal(all_goals, d)]]
        /\ UNCHANGED <<today, data, procs>>

\* datetime.weekday(): Monday is 0, Sunday is 6; day 0 is a Sunday
Weekday(d) == (d + 6) % 7

\* today_date - timedelta(days=today_date.weekday())
StartOfWeek(d) == d - Weekday(d)

\* today_date.replace(day=1): the days of the model lie in January 2023
StartOfMonth(d) == EpochDay

\* list.py, "Filter entries by date range": the dates of data["entries"] in
\* the range, in the dict's order, each with its list, or with its entries of
\* the exercise type when one is given (a date left with none is dropped)
FilteredEntries(es, start_date, end_date, exercise) ==
    LET in_range == SelectSeq(es, LAMBDA r :
                       start_date <= r.date /\ r.date <= end_date)
        of_type(list) == SelectSeq(list, LAMBDA e :
                            e.exercise_type = exercise[1])
        filtered == [i \in 1..Len(in_range) |->
                       IF exercise = None THEN in_range[i]
                       ELSE [in_range[i] EXCEPT !.list = of_type(@)]]
    IN  SelectSeq(filtered, LAMBDA r : exercise = None \/ r.list # <<>>)

\* list.py, the loop "for ex_type, total in date_totals.items()": one date's
\* totals added to all_totals
MergeTotals(all_totals, date_totals) ==
    [t \in DOMAIN all_totals \cup DOMAIN date_totals |->
        IF t \in DOMAIN all_totals /\ t \in DOMAIN date_totals
        THEN [amount |-> all_totals[t].amount + date_totals[t].amount,
              weight_total |-> FAdd(all_totals[t].weight_total,
                                    date_totals[t].weight_total),
              sets_total |-> all_totals[t].sets_total
                             + date_totals[t].sets_total]
        ELSE IF t \in DOMAIN all_totals THEN all_totals[t]
        ELSE date_totals[t]]

\* list.py, "Calculate totals by exercise type", from date i of
\* filtered_entries
RECURSIVE AllTotals(_, _, _)
AllTotals(filtered_entries, i, all_totals) ==
    IF i > Len(filtered_entries) THEN all_totals
    ELSE AllTotals(filtered_entries, i + 1,
            MergeTotals(all_totals,
                        TotalsLoop(filtered_entries[i].list, 1, EmptyDict)))

\* a week's loop that counts the entries of every exercise type
RECURSIVE WeekEntries_AnyType(_, _, _, _)
WeekEntries_AnyType(list, i, ex_type, acc) ==
    IF i > Len(list) THEN acc
    ELSE LET entry  == list[i]
             amount == entry.amount
             weight == Get(entry, "weight", FZero)
             sets   == Get(entry, "sets", 1)
         IN  WeekEntries_AnyType(list, i + 1, ex_type,
                [weekly_total |-> acc.weekly_total + amount * sets,
                 weekly_weight_total |->
                    FAdd(acc.weekly_weight_total,
                         FMul(FMul(FromInt(amount), weight), FromInt(sets))),
                 weekly_sets_total |-> acc.weekly_sets_total + sets])

\* list.py, the loop "for entry in data["entries"][date_str]" of the today
\* view: the entries of one exercise type added to the week's sums
RECURSIVE WeekEntries(_, _, _, _)
WeekEntries(list, i, ex_type, acc) ==
    IF i > Len(list) THEN acc
    ELSE LET entry  == list[i]
             amount == entry.amount
             weight == Get(entry, "weight", FZero)
             sets   == Get(entry, "sets", 1)
         IN  WeekEntries(list, i + 1, ex_type,
                IF entry.exercise_type = ex_type
                THEN [weekly_total |-> acc.weekly_total + amount * sets,
                      weekly_weight_total |->
                         FAdd(acc.weekly_weight_total,
                              FMul(FMul(FromInt(amount), weight), FromInt(sets))),
                      weekly_sets_total |-> acc.weekly_sets_total + sets]
                ELSE acc)

\* list.py, "Calculate total for the week": the loop over the dates of
\* data["entries"], in the dict's order, from date i
RECURSIVE WeeklyTotals(_, _, _, _, _, _)
WeeklyTotals(es, i, ex_type, start_date, end_date, acc) ==
    IF i > Len(es) THEN acc
    ELSE WeeklyTotals(es, i + 1, ex_type, start_date, end_date,
            IF start_date <= es[i].date /\ es[i].date <= end_date
            THEN WeekEntries(es[i].list, 1, ex_type, acc)
            ELSE acc)

\* list.py, "add exercises with goals that haven't been logged": all_totals
\* after the loop over data["goals"] of the today view
TodayTotals(es, gs, day, all_totals) ==
    LET week(t) == WeeklyTotals(es, 1, t, StartOfWeek(day), day,
                      [weekly_total |-> 0, weekly_weight_total |-> FZero,
                       weekly_sets_total |-> 0])
        has_weekly_goal_only(t) ==
            "weekly" \in DOMAIN gs[t]
            /\ ("daily" \notin DOMAIN gs[t] \/ gs[t].daily = 0)
        weekly_goal_met(t) ==
            week(t).weekly_total >= gs[t].weekly * Get(gs[t], "sets", 1)
        unmet == {t \in DOMAIN gs : has_weekly_goal_only(t) /\ ~weekly_goal_met(t)}
        unlogged == {t \in DOMAIN gs : ~has_weekly_goal_only(t)
                                        /\ t \notin DOMAIN all_totals}
    IN  [t \in DOMAIN all_totals \cup unmet \cup unlogged |->
            IF t \in unmet
            THEN [amount |-> week(t).weekly_total,
                  weight_total |-> week(t).weekly_weight_total,
                  sets_total |-> week(t).weekly_sets_total,
                  weekly_goal_only |-> TRUE,
                  weekly_goal_met |-> FALSE,
                  is_last_day_of_week |-> Weekday(day) = 6]
            ELSE IF t \in unlogged
            THEN [amount |-> 0, weight_total |-> FZero, sets_total |-> 0,
                  not_logged |-> TRUE]
            ELSE all_totals[t]]

\* list.py, "Show totals for this date": the totals of one date of
\* filtered_entries, with the rows of the today view when the date is today
DateTotals(es, gs, day, r) ==
    LET date_totals == TotalsLoop(r.list, 1, EmptyDict)
    IN  IF r.date = day THEN TodayTotals(es, gs, day, date_totals)
        ELSE date_totals

\* the rows of totals list prints: the summary table in summary mode; else
\* the totals under each date of filtered_entries and, when there are several
\* dates, the overall totals
Rows(es, gs, day, filtered_entries, all_totals, summary) ==
    LET of(section, date, totals) ==
            {[section |-> section, date |-> date, exercise_type |-> t,
              total |-> totals[t]] : t \in DOMAIN totals}
    IN  IF summary THEN of("summary", None, all_totals)
        ELSE UNION {of("date", Some(filtered_entries[i].date),
                       DateTotals(es, gs, day, filtered_entries[i])) :
                      i \in 1..Len(filtered_entries)}
             \cup (IF Len(filtered_entries) > 1
                   THEN of("overall", None, all_totals) ELSE {})

\* list.py: what list computes and prints
ListResult(es, gs, day, date, week, month, exercise, summary) ==
    LET start_date == IF week THEN StartOfWeek(day)
                      ELSE IF month THEN StartOfMonth(day)
                      ELSE IF date # None THEN date[1]
                      ELSE day
        end_date   == IF ~week /\ ~month /\ date # None THEN date[1] ELSE day
        filtered_entries == FilteredEntries(es, start_date, end_date, exercise)
        today_view == start_date = end_date /\ end_date = day /\ exercise = None
        summed     == AllTotals(filtered_entries, 1, EmptyDict)
        all_totals == IF today_view THEN TodayTotals(es, gs, day, summed)
                      ELSE summed
        \* the totals progress is calculated of: all_totals, at 0, and in
        \* detailed mode the date_totals of each date of filtered_entries
        totals_of  == [i \in 0..(IF summary THEN 0 ELSE Len(filtered_entries)) |->
                         IF i = 0 THEN all_totals
                         ELSE DateTotals(es, gs, day, filtered_entries[i])]
        listed(progress_of) ==
            IF \E i \in DOMAIN progress_of : progress_of[i].raised
            THEN [cmd |-> "list", status |-> "ZeroDivisionError"]
            ELSE [cmd |-> "list", status |-> "listed",
                  start_date |-> start_date,
                  end_date |-> end_date,
                  exercise |-> exercise,
                  summary |-> summary,
                  filtered_entries |-> filtered_entries,
                  all_totals |-> all_totals,
                  progress |-> progress_of[0].progress,
                  rows |-> Rows(es, gs, day, filtered_entries, all_totals,
                                summary)]
    IN  IF filtered_entries = <<>> /\ ~today_view
        THEN [cmd |-> "list", status |-> "no entries"]
        ELSE CHOOSE o \in {listed(p) :
                             p \in {[i \in DOMAIN totals_of |->
                                       calculate_progress(totals_of[i], gs)]}} :
                 TRUE

\* list.py: training list [--date D] [--week] [--month] [--exercise E]
\* [--summary]
List(date, week, month, exercise, summary) ==
    /\ out' = ListResult(entries, goals, today, date, week, month, exercise,
                         summary)
    /\ UNCHANGED <<today, data, procs>>

\* the entries of a date's list that are not of the exercise type
Without(list, exercise) ==
    SelectSeq(list, LAMBDA entry : entry.exercise_type # exercise)

\* data["entries"] with the entries of the exercise type taken off the date
\* (off every date when date is None), and the dates left empty deleted
ClearedOf(es, exercise, date) ==
    LET filtered == [i \in 1..Len(es) |->
                       IF date = None \/ es[i].date = date[1]
                       THEN [es[i] EXCEPT !.list = Without(@, exercise)]
                       ELSE es[i]]
    IN  SelectSeq(filtered, LAMBDA r : r.list # <<>>)

\* clear.py: training clear [--all] [--date D] [--exercise E] [--goals]
\* [--force]; confirmed is --force or the answer at the prompt.  clear --all
\* removes the data file, and the next command starts from the seeded one.
Clear(clear_all, date, exercise, clear_goals, confirmed) ==
    IF clear_all
    THEN IF ~confirmed
         THEN /\ out' = [cmd |-> "clear", status |-> "cancelled"]
              /\ UNCHANGED <<today, data, procs>>
         ELSE /\ entries' = <<>>
              /\ goals' = DefaultGoals
              /\ goal_history' = EmptyDict
              /\ exercise_types' = DefaultExerciseTypes
              /\ out' = [cmd |-> "clear", status |-> "all"]
              /\ UNCHANGED <<today, procs>>
    ELSE IF clear_goals
    THEN IF ~confirmed
         THEN /\ out' = [cmd |-> "clear", status |-> "cancelled"]
              /\ UNCHANGED <<today, data, procs>>
         ELSE /\ goals' = EmptyDict
              /\ out' = [cmd |-> "clear", status |-> "goals"]
              /\ UNCHANGED <<today, entries, goal_history, exercise_types, procs>>
    ELSE IF date # None
    THEN IF ~HasDate(entries, date[1])
         THEN /\ out' = [cmd |-> "clear", status |-> "no entries for date"]
              /\ UNCHANGED <<today, data, procs>>
         ELSE IF ~confirmed
         THEN /\ out' = [cmd |-> "clear", status |-> "cancelled"]
              /\ UNCHANGED <<today, data, procs>>
         ELSE IF exercise # None
         THEN /\ entries' = ClearedOf(entries, exercise[1], date)
              /\ out' = [cmd |-> "clear", status |-> "date exercise"]
              /\ UNCHANGED <<today, goals, goal_history, exercise_types, procs>>
         ELSE /\ entries' = SelectSeq(entries, LAMBDA r : r.date # date[1])
              /\ out' = [cmd |-> "clear", status |-> "date"]
              /\ UNCHANGED <<today, goals, goal_history, exercise_types, procs>>
    ELSE IF exercise # None
    THEN IF ~confirmed
         THEN /\ out' = [cmd |-> "clear", status |-> "cancelled"]
              /\ UNCHANGED <<today, data, procs>>
         ELSE LET cleared  == ClearedOf(entries, exercise[1], None)
                  modified == cleared # entries
              IN  /\ entries' = cleared
                  /\ out' = [cmd |-> "clear",
                             status |-> IF modified THEN "exercise"
                                        ELSE "no entries for exercise"]
                  /\ UNCHANGED <<today, goals, goal_history, exercise_types, procs>>
    ELSE IF ~confirmed
    THEN /\ out' = [cmd |-> "clear", status |-> "cancelled"]
         /\ UNCHANGED <<today, data, procs>>
    ELSE /\ entries' = <<>>
         /\ out' = [cmd |-> "clear", status |-> "entries"]
         /\ UNCHANGED <<today, goals, goal_history, exercise_types, procs>>

(***************************************************************************)
(* The inputs of the commands                                              *)
(***************************************************************************)
GoalTypes == {"pushup"}

DailyOpts == {None, Some(10)}

WeeklyOpts == {None}

SetsOpts == {None, Some(0)}

WeightOpts == {None}

AddTypes == {"pushup"}

AddAmounts == {29}

AddSets == {1}

GraphDays == {3}

AddDates == {None, Some(EpochDay)}

ListDates == {None, Some(EpochDay)}

\* clear --all, clear --goals, clear --date D, clear --exercise E and clear
ClearOpts ==
    {<<TRUE, None, None, FALSE>>,
     <<FALSE, None, None, TRUE>>,
     <<FALSE, Some(EpochDay), None, FALSE>>,
     <<FALSE, None, Some("pushup"), FALSE>>,
     <<FALSE, None, None, FALSE>>}

Next ==
    \/ AdvanceDay
    \/ \E t \in GoalTypes, d \in DailyOpts, w \in WeeklyOpts, s \in SetsOpts,
          k \in WeightOpts :
          Goal(Some(t), d, w, s, k, FALSE, FALSE)
    \/ \E t \in GoalTypes : Goal(Some(t), None, None, None, None, FALSE, TRUE)
    \/ \E t \in AddTypes, d \in AddDates,
          a \in AddAmounts, s \in AddSets :
          Add(t, d, a, None, s, FALSE, 1)
    \/ \E e \in GoalTypes, n \in GraphDays : Graph(e, n)
    \/ \E d \in ListDates : List(d, FALSE, FALSE, None, FALSE)
    \/ \E c \in ClearOpts : Clear(c[1], c[2], c[3], c[4], TRUE)

Spec == Init /\ [][Next]_vars
\* the orderings of n elements
Orderings(n) ==
    {p \in [1..n -> 1..n] : \A i, j \in 1..n : p[i] = p[j] => i = j}

Permuted(seq, p) == [i \in 1..Len(seq) |-> seq[p[i]]]

\* C1: calculate_progress never divides by zero, for every totals mapping and
\* every goal the goal command can store (sets = 0 included); nor does the
\* daily-progress computation that add runs after saving an entry.
C1_NoDivisionByZero ==
    /\ out.cmd \in {"add", "list"} => out.status # "ZeroDivisionError"
    /\ \A d \in Days :
          ~calculate_progress(calculate_total_by_exercise(entries, d), goals).raised

\* the snapshots goal resolution chooses from: the history of the exercise
\* type and its current goal
Snapshots(exercise) ==
    LET history == Get(goal_history, exercise, <<>>)
    IN  {history[i] : i \in 1..Len(history)} \cup {goals[exercise]}

Resolved == out.cmd = "graph" /\ out.status = "plotted" /\ out.resolved

\* C9: goal resolution for a query date returns, among the goal history of the
\* exercise type plus its current goal, the snapshot with the greatest
\* effective date that is <= the query date, and absent when no snapshot has
\* an effective date <= the query date.
C9_GreatestEffectiveDate ==
    Resolved =>
        \A d \in DOMAIN out.applicable_goal :
            LET r == out.applicable_goal[d]
                eligible == {g \in Snapshots(out.exercise) : EffectiveDate(g) <= d}
            IN  IF eligible = {} THEN r = None
                ELSE /\ r # None
                     /\ r[1] \in eligible
                     /\ \A g \in eligible : EffectiveDate(g) <= EffectiveDate(r[1])

\* C9's case: one graph whose dates resolve to absent, to a snapshot of the
\* history and to the current goal
C9_Witness ==
    /\ Resolved
    /\ \E d \in DOMAIN out.applicable_goal : out.applicable_goal[d] = None
    /\ \E d \in DOMAIN out.applicable_goal :
          /\ out.applicable_goal[d] # None
          /\ out.applicable_goal[d][1] # goals[out.exercise]
          /\ EffectiveDate(out.applicable_goal[d][1]) = d
    /\ \E d \in DOMAIN out.applicable_goal :
          /\ out.applicable_goal[d] = Some(goals[out.exercise])
          /\ EffectiveDate(goals[out.exercise]) > EpochDay

\* goal resolution on the history of the exercise type put in order p
ResolvedIn(p, d) ==
    ApplicableGoal(AllGoals(Permuted(goal_history[out.exercise], p),
                            goals[out.exercise]), d)

C12_HistoryWithoutCurrent ==
    (out.cmd = "graph" /\ out.status = "plotted"
     /\ out.exercise \notin DOMAIN goals
     /\ out.exercise \in DOMAIN goal_history) =>
        /\ out.resolved
        /\ \A d \in DOMAIN out.applicable_goal :
              LET history  == goal_history[out.exercise]
                  eligible == {i \in 1..Len(history) :
                                 EffectiveDate(history[i]) <= d}
              IN  IF eligible = {} THEN out.applicable_goal[d] = None
                  ELSE out.applicable_goal[d] =
                         Some(history[CHOOSE i \in eligible :
                                        \A j \in eligible : j <= i])

\* the snapshots kept for an exercise type: its current goal and the elements
\* of its goal history
Kept(t) ==
    (IF t \in DOMAIN goals THEN {goals[t]} ELSE {})
    \cup (IF t \in DOMAIN goal_history
          THEN {goal_history[t][i] : i \in 1..Len(goal_history[t])} ELSE {})

\* C14: no goal-setting, goal-deleting or clear operation other than
\* 'clear --all' discards a snapshot: after each of them every snapshot that
\* was a type's current goal or in its history is still the type's current
\* goal or in its history (so every snapshot that was once the current goal
\* stays kept).
C14_SnapshotsRetained ==
    [][(out'.cmd = "clear" /\ out'.status = "all")
       \/ \A t \in DOMAIN goals \cup DOMAIN goal_history : Kept(t) \subseteq Kept(t)']_vars

\* C15: deleting the goal of a type that has a current goal removes the type
\* from the goals and appends a copy of the goal as the last element of the
\* type's history, leaving the earlier history elements, the other types'
\* goals and histories and all entries unchanged; deleting when the type has
\* no current goal changes nothing.
C15_DeleteMovesToHistory ==
    [][/\ (out'.cmd = "goal" /\ out'.status = "deleted") =>
             \E t \in DOMAIN goals :
                /\ goals' = [x \in DOMAIN goals \ {t} |-> goals[x]]
                /\ DOMAIN goal_history' = DOMAIN goal_history \cup {t}
                /\ goal_history'[t] =
                      (IF t \in DOMAIN goal_history THEN goal_history[t]
                       ELSE <<>>) \o <<goals[t]>>
                /\ \A x \in DOMAIN goal_history \ {t} :
                      goal_history'[x] = goal_history[x]
                /\ entries' = entries
                /\ exercise_types' = exercise_types
       /\ (out'.cmd = "goal" /\ out'.status = "no goal") =>
             data' = data]_vars

\* C15's case: a goal deleted while the type had a history and entries were
\* logged; the deleted goal is the last element of the history
C15_Witness ==
    /\ out.cmd = "goal" /\ out.status = "deleted"
    /\ "pushup" \notin DOMAIN goals
    /\ Len(goal_history["pushup"]) >= 2
    /\ goal_history["pushup"][1] # goal_history["pushup"][2]
    /\ entries # <<>>

\* C16: every exercise type's goal history is ordered by effective date
\* ascending (non-strictly), and no history snapshot has an effective date
\* later than the type's current goal.
C16_HistoryOrdered ==
    \A t \in DOMAIN goal_history :
        LET history == goal_history[t]
        IN  /\ \A i, j \in 1..Len(history) :
                  i < j => EffectiveDate(history[i]) <= EffectiveDate(history[j])
            /\ t \in DOMAIN goals =>
                  \A i \in 1..Len(history) :
                      EffectiveDate(history[i]) <= EffectiveDate(goals[t])

\* C16's case: a history of snapshots of two effective dates under a current
\* goal set on a later day, the last command a goal change
C16_Witness ==
    /\ out.cmd = "goal" /\ out.status = "set"
    /\ "pushup" \in DOMAIN goals /\ "pushup" \in DOMAIN goal_history
    /\ LET history == goal_history["pushup"]
       IN  /\ Len(history) >= 2
           /\ EffectiveDate(history[1]) < EffectiveDate(history[Len(history)])
           /\ EffectiveDate(history[Len(history)]) < EffectiveDate(goals["pushup"])

\* C17: the progress list reports for a historical date D is computed against
\* the goal snapshot in effect on D (the one goal resolution returns for D),
\* so a goal change made after D does not change it.
C17_ProgressUnderGoalOfDate ==
    (out.cmd = "list" /\ out.status = "listed"
     /\ out.start_date = out.end_date /\ out.end_date < today) =>
        \A t \in DOMAIN goals :
            LET in_effect == ApplicableGoal(AllGoals(Get(goal_history, t, <<>>),
                                                     goals[t]), out.end_date)
            IN  (in_effect # None
                 /\ ~ProgressOf(out.all_totals, t, in_effect[1]).raised) =>
                    out.progress[t] =
                       ProgressOf(out.all_totals, t, in_effect[1]).progress

(***************************************************************************)
(* The aggregation of entries, as a specification of its own: the data     *)
(* file holds any dataset of at most MaxLen entries on the last two days   *)
(* of the model, which lie in one week, the goals are the seeded ones, and *)
(* the operations are calculate_total_by_exercise on a date and list over  *)
(* the week.                                                               *)
(***************************************************************************)
MaxLen == 3

\* the day the aggregation is run: the last day of the model
TotalsToday == MaxDay

\* the dates of the entries: the day before, and the day
TotalsDates == {TotalsToday - 1, TotalsToday}

\* float("0.n")
Tenths(n) == FDiv(FromInt(n), FromInt(10))

\* entries as add writes them, and entries of a data file that lack the
\* "weight" or the "sets" key
EntryVals ==
    {[exercise_type |-> "pushup", amount |-> 1, unit |-> "reps",
      weight |-> Tenths(w), sets |-> 1] : w \in 1..3}
    \cup {[exercise_type |-> "pushup", amount |-> 3, unit |-> "reps", sets |-> 2],
          [exercise_type |-> "curl", amount |-> 4, unit |-> "reps",
           weight |-> FromInt(5)],
          [exercise_type |-> "curl", amount |-> 2, unit |-> "reps",
           weight |-> FZero, sets |-> 3]}

SeqsUpTo(S, n) == UNION {[1..k -> S] : k \in 0..n}

\* data["entries"] after the entries of a sequence of <<date, entry>> pairs
\* were appended in turn
RECURSIVE Dataset(_, _, _)
Dataset(pairs, i, es) ==
    IF i > Len(pairs) THEN es
    ELSE Dataset(pairs, i + 1, AppendEntry(es, pairs[i][1], pairs[i][2]))

InitTotals ==
    /\ today = TotalsToday
    /\ entries \in {Dataset(p, 1, <<>>) :
                      p \in SeqsUpTo(TotalsDates \X EntryVals, MaxLen)}
    /\ goals = DefaultGoals
    /\ goal_history = EmptyDict
    /\ exercise_types = DefaultExerciseTypes
    /\ out = [cmd |-> "none"]
    /\ procs = NoProcs

\* a call of calculate_total_by_exercise(data["entries"], date)
Totals(date) ==
    /\ out' = [cmd |-> "calculate_total_by_exercise",
               date |-> date,
               totals |-> calculate_total_by_exercise(entries, date)]
    /\ UNCHANGED <<today, data, procs>>

NextTotals ==
    \/ \E date \in TotalsDates : Totals(date)
    \/ List(None, TRUE, FALSE, None, TRUE)

SpecTotals == InitTotals /\ [][NextTotals]_vars

RECURSIVE SumSeq(_, _)
SumSeq(seq, i) == IF i > Len(seq) THEN 0 ELSE seq[i] + SumSeq(seq, i + 1)

\* the float sum of a sequence of floats, taken from the left
RECURSIVE FSumSeq(_, _, _)
FSumSeq(seq, i, acc) ==
    IF i > Len(seq) THEN acc ELSE FSumSeq(seq, i + 1, FAdd(acc, seq[i]))

TypesOf(list) == {list[i].exercise_type : i \in 1..Len(list)}

\* the totals of one exercise type over a list of entries, as sums over the
\* type's entries
SumsOf(list, t) ==
    LET mine == SelectSeq(list, LAMBDA e : e.exercise_type = t)
        sets(e)   == IF "sets" \in DOMAIN e THEN e.sets ELSE 1
        weight(e) == IF "weight" \in DOMAIN e THEN e.weight ELSE FZero
    IN  [amount |-> SumSeq([i \in 1..Len(mine) |->
                               mine[i].amount * sets(mine[i])], 1),
         weight_total |-> FSumSeq([i \in 1..Len(mine) |->
                               FMul(FMul(FromInt(mine[i].amount), weight(mine[i])),
                                    FromInt(sets(mine[i])))], 1, FZero),
         sets_total |-> SumSeq([i \in 1..Len(mine) |-> sets(mine[i])], 1)]

\* C3: calculate_total_by_exercise(entries, D) has exactly the exercise types
\* with an entry on D as keys and, for each, amount = sum of amount*sets,
\* weight_total = sum (in floats, in the entries' order) of amount*weight*sets
\* and sets_total = sum of sets over the type's entries on D, a missing weight
\* counting as 0 and missing sets as 1; a weight of 0 adds 0 to weight_total
\* and still adds to amount and sets_total; a date with no entries gives the
\* empty mapping.
C3_TotalsAreSums ==
    out.cmd = "calculate_total_by_exercise" =>
        LET list == IF HasDate(entries, out.date)
                    THEN EntriesOn(entries, out.date) ELSE <<>>
        IN  /\ DOMAIN out.totals = TypesOf(list)
            /\ \A t \in TypesOf(list) : out.totals[t] = SumsOf(list, t)
            /\ list = <<>> => out.totals = EmptyDict

\* C3's case: a date with an entry without "weight", one without "sets" and
\* one of weight 0, whose totals count all three
C3_Witness ==
    /\ out.cmd = "calculate_total_by_exercise"
    /\ HasDate(entries, out.date)
    /\ LET list == EntriesOn(entries, out.date)
       IN  /\ \E i \in 1..Len(list) : "weight" \notin DOMAIN list[i]
           /\ \E i \in 1..Len(list) : "sets" \notin DOMAIN list[i]
           /\ \E i \in 1..Len(list) :
                 "weight" \in DOMAIN list[i] /\ list[i].weight = FZero
    /\ DOMAIN out.totals = {"pushup", "curl"}
    /\ out.totals["pushup"] =
          [amount |-> 6, weight_total |-> FZero, sets_total |-> 2]
    /\ out.totals["curl"] =
          [amount |-> 10, weight_total |-> FromInt(20), sets_total |-> 4]

\* C4: for every sequence of entries on a date and every permutation of it,
\* calculate_total_by_exercise returns identical totals.
C4_OrderIndependent ==
    (out.cmd = "calculate_total_by_exercise" /\ HasDate(entries, out.date)) =>
        LET list == EntriesOn(entries, out.date)
        IN  \A p \in Orderings(Len(list)) :
               TotalsLoop(Permuted(list, p), 1, EmptyDict) = out.totals

\* the entries of the dates of filtered_entries, as one sequence
RECURSIVE Flattened(_, _)
Flattened(filtered_entries, i) ==
    IF i > Len(filtered_entries) THEN <<>>
    ELSE filtered_entries[i].list \o Flattened(filtered_entries, i + 1)

\* C5: the all_totals that list builds over a date range are the pointwise
\* sum of the single-date totals of the dates of the range, the same in
\* whatever order the dates are iterated, and equal to the totals of all the
\* range's entries aggregated as one sequence.
C5_MultiDateTotals ==
    (out.cmd = "list" /\ out.status = "listed"
     /\ out.start_date < out.end_date) =>
        /\ \A p \in Orderings(Len(out.filtered_entries)) :
              AllTotals(Permuted(out.filtered_entries, p), 1, EmptyDict)
                 = out.all_totals
        /\ TotalsLoop(Flattened(out.filtered_entries, 1), 1, EmptyDict)
              = out.all_totals

(***************************************************************************)
(* calculate_progress, as a specification of its own: the goals hold one   *)
(* goal for pushup with any of the option values below stored or absent,   *)
(* and the totals are empty or hold pushup's totals.                       *)
(***************************************************************************)
ProgressAmounts == {0, 25, 29, 99, 100}

ProgressWeightTotals == {0, 145, 1000}

ProgressDaily == {None, Some(0), Some(10), Some(50)}

ProgressWeekly == {None, Some(50), Some(100)}

ProgressSets == {None, Some(0), Some(3), Some(-3)}

ProgressWeights == {None, Some(0), Some(5)}

\* the dict {key: value}, or {} for None
Field(key, value) == IF value = None THEN EmptyDict ELSE key :> value[1]

GoalOf(daily, weekly, sets, weight) ==
    Field("daily", daily) @@ Field("weekly", weekly) @@ Field("sets", sets)
    @@ Field("weight", IF weight = None THEN None ELSE Some(FromInt(weight[1])))
    @@ Field("effective_date", Some(EpochDay))

InitProgress ==
    /\ today = EpochDay
    /\ entries = <<>>
    /\ goals \in {"pushup" :> GoalOf(d, w, s, k) :
                    d \in ProgressDaily, w \in ProgressWeekly,
                    s \in ProgressSets, k \in ProgressWeights}
    /\ goal_history = EmptyDict
    /\ exercise_types = DefaultExerciseTypes
    /\ out \in {[cmd |-> "totals", totals |-> EmptyDict]}
               \cup {[cmd |-> "totals",
                      totals |-> "pushup" :>
                         [amount |-> a, weight_total |-> FromInt(w),
                          sets_total |-> 1]] :
                       a \in ProgressAmounts, w \in ProgressWeightTotals}
    /\ procs = NoProcs

\* a call of calculate_progress(totals, data["goals"])
Progress ==
    /\ out.cmd = "totals"
    /\ out' = [cmd |-> "calculate_progress",
               totals |-> out.totals,
               result |-> calculate_progress(out.totals, goals)]
    /\ UNCHANGED <<today, data, procs>>

NextProgress == Progress

SpecProgress == InitProgress /\ [][NextProgress]_vars

\* floor(a / b) for b # 0
Floor(a, b) == IF b > 0 THEN a \div b ELSE (-a) \div (-b)

Min(a, b) == IF a < b THEN a ELSE b

Returned == out.cmd = "calculate_progress" /\ ~out.result.raised

\* C2: whatever sets and weight values the goals hold, every 'reps' and every
\* 'weight' value that calculate_progress returns is an integer in 0..100.
C2_PercentInRange ==
    Returned =>
        \A t \in DOMAIN out.result.progress :
            /\ out.result.progress[t]["reps"] \in 0..100
            /\ out.result.progress[t]["weight"] \in 0..100

\* C6: for a type whose goal has daily > 0 and which has totals, reps is
\* min(100, floor(100 * amount / (daily * sets))), sets defaulting to 1 and
\* the daily target taking precedence over a weekly one; a type with a goal
\* and no totals gets reps = 0.
C6_DailyReps ==
    Returned =>
        \A t \in DOMAIN goals :
            LET g    == goals[t]
                sets == IF "sets" \in DOMAIN g THEN g.sets ELSE 1
            IN  /\ ("daily" \in DOMAIN g /\ g.daily > 0 /\ t \in DOMAIN out.totals)
                      => out.result.progress[t]["reps"] =
                            Min(100, Floor(100 * out.totals[t].amount,
                                           g.daily * sets))
                /\ t \notin DOMAIN out.totals
                      => out.result.progress[t]["reps"] = 0

\* C7: for a type whose goal has no daily target (absent or 0) and weekly > 0,
\* weekly_goal_only is true and, over its totals, reps is
\* min(100, floor(100 * amount / (weekly * sets))) and weekly_goal_met is
\* (amount >= weekly * sets); for a goal with daily > 0, weekly_goal_only and
\* weekly_goal_met are both false.
C7_WeeklyOnly ==
    Returned =>
        \A t \in DOMAIN goals :
            LET g      == goals[t]
                sets   == IF "sets" \in DOMAIN g THEN g.sets ELSE 1
                daily  == IF "daily" \in DOMAIN g THEN g.daily ELSE 0
                weekly == IF "weekly" \in DOMAIN g THEN g.weekly ELSE 0
                p      == out.result.progress[t]
            IN  /\ (daily = 0 /\ weekly > 0) =>
                      /\ p["weekly_goal_only"] = TRUE
                      /\ t \in DOMAIN out.totals =>
                            /\ p["reps"] = Min(100, Floor(100 * out.totals[t].amount,
                                                          weekly * sets))
                            /\ p["weekly_goal_met"] =
                                  (out.totals[t].amount >= weekly * sets)
                /\ daily > 0 =>
                      /\ p["weekly_goal_only"] = FALSE
                      /\ p["weekly_goal_met"] = FALSE

\* C8: weight progress is computed only when the goal weight is > 0 and the
\* type has totals: with the denominator (daily if daily > 0, else weekly) *
\* sets * weight, weight is min(100, floor(100 * weight_total / denominator))
\* when the denominator is > 0, and 0 in every other case.
C8_WeightProgress ==
    Returned =>
        \A t \in DOMAIN goals :
            LET g      == goals[t]
                sets   == IF "sets" \in DOMAIN g THEN g.sets ELSE 1
                daily  == IF "daily" \in DOMAIN g THEN g.daily ELSE 0
                weekly == IF "weekly" \in DOMAIN g THEN g.weekly ELSE 0
                weight == IF "weight" \in DOMAIN g THEN FTrunc(g.weight) ELSE 0
                denominator == (IF daily > 0 THEN daily ELSE weekly) * sets * weight
            IN  out.result.progress[t]["weight"] =
                   IF weight > 0 /\ t \in DOMAIN out.totals /\ denominator > 0
                   THEN Min(100, Floor(100 * FTrunc(out.totals[t].weight_total),
                                       denominator))
                   ELSE 0

(***************************************************************************)
(* Goal resolution, as a specification of its own: the data file holds a   *)
(* history of at most MaxHistory snapshots for pushup, some of them with   *)
(* no "effective_date" (the history is not migrated on load), and a        *)
(* current goal or none; the operation is graph's resolution of the goal   *)
(* for one date.                                                           *)
(***************************************************************************)
MaxHistory == 2

\* the dates of the snapshots and of the queries: from 2022-12-31 on
ResolveDays == (EpochDay - 1)..(EpochDay + 1)

\* snapshots as goal writes them, and snapshots without "effective_date"
HistorySnapshots ==
    {[daily |-> d, sets |-> 3, weight |-> FZero] : d \in {10, 20}}
    \cup {[daily |-> d, sets |-> 3, weight |-> FZero, effective_date |-> e] :
            d \in {10, 20}, e \in ResolveDays}

\* a current goal has an effective date once the data file was loaded
CurrentGoals ==
    {[daily |-> d, sets |-> 3, weight |-> FZero, effective_date |-> e] :
       d \in {10, 20}, e \in ResolveDays}

InitResolve ==
    /\ today = EpochDay + 1
    /\ entries = <<>>
    /\ goals \in {EmptyDict} \cup {"pushup" :> g : g \in CurrentGoals}
    /\ goal_history \in {"pushup" :> h : h \in SeqsUpTo(HistorySnapshots, MaxHistory)}
    /\ exercise_types = DefaultExerciseTypes
    /\ out = [cmd |-> "none"]
    /\ procs = NoProcs

\* graph.py, "Add goal line if applicable", for one date of the range
Resolve(exercise, date) ==
    /\ out' = IF exercise \notin DOMAIN goals
              THEN [cmd |-> "resolve", resolved |-> FALSE,
                    exercise |-> exercise, date |-> date]
              ELSE LET all_goals == AllGoals(Get(goal_history, exercise, <<>>),
                                             goals[exercise])
                   IN  [cmd |-> "resolve", resolved |-> TRUE,
                        exercise |-> exercise, date |-> date,
                        all_goals |-> all_goals,
                        applicable_goal |-> ApplicableGoal(all_goals, date)]
    /\ UNCHANGED <<today, data, procs>>

NextResolve == \E date \in ResolveDays : Resolve("pushup", date)

SpecResolve == InitResolve /\ [][NextResolve]_vars

Dated(g) == "effective_date" \in DOMAIN g

\* C11 as stated: a snapshot with no recorded effective date sorts before
\* every snapshot that has one, and qualifies for every query date.
C11_EarliestPossible ==
    (out.cmd = "resolve" /\ out.resolved) =>
        /\ \A i, j \in 1..Len(out.all_goals) :
              (~Dated(out.all_goals[i]) /\ Dated(out.all_goals[j])) => i < j
        /\ (\E i \in 1..Len(out.all_goals) : ~Dated(out.all_goals[i]))
              => out.applicable_goal # None

\* C11, amended: a snapshot with no recorded effective date is treated as
\* effective on 2023-01-01: it sorts after every snapshot dated earlier and
\* before every snapshot dated later, and it qualifies for the query dates
\* from 2023-01-01 on and for no earlier one.
C11_EffectiveFromEpoch ==
    (out.cmd = "resolve" /\ out.resolved) =>
        /\ \A i, j \in 1..Len(out.all_goals) :
              LET a == out.all_goals[i]
                  b == out.all_goals[j]
              IN  (~Dated(a) /\ Dated(b)) =>
                     /\ b.effective_date < EpochDay => j < i
                     /\ b.effective_date > EpochDay => i < j
        /\ (\E i \in 1..Len(out.all_goals) : ~Dated(out.all_goals[i])) =>
              IF out.date >= EpochDay
              THEN /\ out.applicable_goal # None
                   /\ Dated(out.applicable_goal[1])
                         => out.applicable_goal[1].effective_date >= EpochDay
              ELSE out.applicable_goal = None
                   \/ Dated(out.applicable_goal[1])

\* C11's case: a history with an undated snapshot, one dated before
\* 2023-01-01 and a current goal dated after it, resolved to the undated
\* snapshot
C11_Witness ==
    /\ out.cmd = "resolve" /\ out.resolved
    /\ Len(out.all_goals) = 3
    /\ Dated(out.all_goals[1]) /\ out.all_goals[1].effective_date < EpochDay
    /\ ~Dated(out.all_goals[2])
    /\ Dated(out.all_goals[3]) /\ out.all_goals[3].effective_date > EpochDay
    /\ out.date = EpochDay
    /\ out.applicable_goal = Some(out.all_goals[2])

\* the effective date of the current goal is shared by a history snapshot
\* and is the greatest effective date <= the query date
CurrentTies ==
    /\ out.cmd = "resolve" /\ out.resolved
    /\ LET current == goals[out.exercise]
           history == goal_history[out.exercise]
       IN  /\ EffectiveDate(current) <= out.date
           /\ \E i \in 1..Len(history) :
                 EffectiveDate(history[i]) = EffectiveDate(current)
           /\ \A i \in 1..Len(history) :
                 EffectiveDate(history[i]) <= out.date
                    => EffectiveDate(history[i]) <= EffectiveDate(current)

\* C13: when the current goal and one or more history snapshots share an
\* effective date and that date is the greatest one <= the query date, goal
\* resolution returns the current goal.
C13_CurrentWinsTies ==
    CurrentTies => out.applicable_goal = Some(goals[out.exercise])

\* C13's case: two history snapshots that differ from the current goal and
\* share its effective date, resolved to the current goal
C13_Witness ==
    /\ CurrentTies
    /\ LET current == goals[out.exercise]
           history == goal_history[out.exercise]
       IN  /\ Len(history) = 2
           /\ \A i \in 1..2 :
                 /\ history[i] # current
                 /\ Dated(history[i])
                 /\ history[i].effective_date = current.effective_date
    /\ out.applicable_goal = Some(goals[out.exercise])


(***************************************************************************)
(* The today view of list over data files with weekly goals                *)
(***************************************************************************)
\* the most <<date, entry>> pairs of a data file of the today view
MaxToday == 2

\* the days list is run on: Sunday 2023-01-01 and Tuesday 2023-01-03
TodayDays == {EpochDay, EpochDay + 2}

\* entries as add writes them
TodayEntryVals ==
    {[exercise_type |-> "pushup", amount |-> 30, unit |-> "reps",
      weight |-> FZero, sets |-> 1],
     [exercise_type |-> "pushup", amount |-> 10, unit |-> "reps",
      weight |-> FromInt(2), sets |-> 2],
     [exercise_type |-> "plank", amount |-> 70, unit |-> "seconds",
      weight |-> FZero, sets |-> 1]}

\* data["goals"] as goal leaves it: squat keeps its seeded daily goal; pushup
\* keeps it or has, after goal pushup --daily 0 --weekly 15, a weekly goal
\* only; plank has no goal or, after goal plank --weekly 40, a weekly goal only
TodayGoals ==
    {[t \in {"pushup", "squat"} \cup p |->
         IF t = "pushup" THEN g
         ELSE IF t = "squat" THEN DefaultGoals["squat"]
         ELSE [sets |-> 3, weight |-> FZero, effective_date |-> EpochDay,
               weekly |-> 40]] :
       g \in {DefaultGoals["pushup"],
              [daily |-> 0, sets |-> 3, weight |-> FZero,
               effective_date |-> EpochDay, weekly |-> 15]},
       p \in {{}, {"plank"}}}

InitToday ==
    /\ today \in TodayDays
    /\ entries \in {Dataset(p, 1, <<>>) :
                      p \in SeqsUpTo(((today - 2)..today) \X TodayEntryVals,
                                     MaxToday)}
    /\ goals \in TodayGoals
    /\ goal_history = EmptyDict
    /\ exercise_types = DefaultExerciseTypes
    /\ out = [cmd |-> "none"]
    /\ procs = NoProcs

NextToday ==
    \E summary \in BOOLEAN : List(None, FALSE, FALSE, None, summary)

SpecToday == InitToday /\ [][NextToday]_vars

\* the Monday that starts the week of a day: 2023-01-02 is a Monday
MondayOf(day) == CHOOSE d \in (day - 6)..day : d % 7 = (EpochDay + 1) % 7

\* the sums of an exercise type over the entries dated Monday to today
WeekToDate(t) ==
    SumsOf(Flattened(SelectSeq(entries, LAMBDA r :
                        MondayOf(today) <= r.date /\ r.date <= today), 1), t)

\* a goal with a weekly target and no daily target
WeeklyOnly(goal_data) ==
    "weekly" \in DOMAIN goal_data
    /\ ("daily" \notin DOMAIN goal_data \/ goal_data.daily = 0)

\* the exercise types whose weekly-only goal is not yet met this week
Unmet ==
    {t \in DOMAIN goals :
        WeeklyOnly(goals[t])
        /\ WeekToDate(t).amount < goals[t].weekly * Get(goals[t], "sets", 1)}

\* the totals row of an unmet weekly-only goal
WeekRow(t) ==
    [amount |-> WeekToDate(t).amount,
     weight_total |-> WeekToDate(t).weight_total,
     sets_total |-> WeekToDate(t).sets_total,
     weekly_goal_only |-> TRUE,
     weekly_goal_met |-> FALSE,
     is_last_day_of_week |-> today % 7 = EpochDay % 7]

TodayView ==
    /\ out.cmd = "list" /\ out.status = "listed"
    /\ out.start_date = today /\ out.end_date = today /\ out.exercise = None

\* C18: in the today view of list, all_totals holds, for every exercise type
\* whose goal is weekly-only and whose Monday-to-today total is below
\* weekly * sets, a row with weekly_goal_only true, weekly_goal_met false and
\* the week-to-date amount, weight total and sets total, also when today has
\* no entry; is_last_day_of_week is true exactly on a Sunday; the same row
\* stands in the totals shown under today's date when today has entries.
C18_UnmetWeeklyRow ==
    TodayView =>
        \A t \in Unmet :
            /\ t \in DOMAIN out.all_totals
            /\ out.all_totals[t] = WeekRow(t)
            /\ \A row \in out.rows :
                  (row.exercise_type = t /\ row.date \in {None, Some(today)})
                     => row.total = WeekRow(t)
            /\ (out.summary \/ HasDate(entries, today)) =>
                  \E row \in out.rows : row.exercise_type = t

\* the today view on a Sunday without an entry for the day, with an unmet
\* weekly-only goal that has entries earlier in the week
C18_Witness ==
    /\ TodayView
    /\ today % 7 = EpochDay % 7
    /\ ~HasDate(entries, today)
    /\ \E t \in Unmet : WeekToDate(t).amount > 0

\* the exercise types with a daily goal and no entry today
Unlogged ==
    {t \in DOMAIN goals :
        /\ Get(goals[t], "daily", 0) > 0
        /\ \A i \in 1..Len(entries) :
              entries[i].date = today =>
                 \A j \in 1..Len(entries[i].list) :
                    entries[i].list[j].exercise_type # t}

\* C19: in the today view of list, in summary mode and in detailed mode,
\* every exercise type with a daily goal and no entry today has a row in the
\* output with zero totals, marked not logged, also when today has no entry
\* of any type.
C19_UnloggedDailyShown ==
    TodayView =>
        \A t \in Unlogged :
            \E row \in out.rows :
                /\ row.exercise_type = t
                /\ "not_logged" \in DOMAIN row.total
                /\ row.total.amount = 0
                /\ row.total.sets_total = 0
                /\ row.total.weight_total = FZero

\* C20: for every exercise type with a weekly-only goal, the totals that the
\* today view of list passes to calculate_progress are the week-to-date
\* totals, Monday to today, whether or not the weekly goal is already met.
C20_WeekToDatePassed ==
    TodayView =>
        \A t \in DOMAIN goals :
            WeeklyOnly(goals[t]) =>
                /\ t \in DOMAIN out.all_totals
                /\ out.all_totals[t].amount = WeekToDate(t).amount
                /\ out.all_totals[t].weight_total = WeekToDate(t).weight_total
                /\ out.all_totals[t].sets_total = WeekToDate(t).sets_total


(***************************************************************************)
(* add and goal with arguments that fail validation, custom exercise       *)
(* types, and amounts and sets of either sign                              *)
(***************************************************************************)
\* pushup is defined and has a seeded goal, plank is defined and has no
\* goal, yoga is not defined
CommandTypes == {"pushup", "plank", "yoga"}

\* the types add is run with
CommandAddTypes == {"pushup", "yoga"}

CommandDates == {None, Some(EpochDay + 1), Malformed}

\* <<amount, sets>> as --reps/--time and --sets or the prompts accept them:
\* click's type=int takes any integer
CommandAmounts == {<<29, 1>>, <<-5, 0>>}

\* the answers to the unit prompt: seconds, and a number out of range
CommandUnitChoices == {2}

NextCommands ==
    \/ \E t \in CommandAddTypes, d \in CommandDates, a \in CommandAmounts,
          c \in BOOLEAN, u \in CommandUnitChoices :
          Add(t, d, a[1], None, a[2], c, u)
    \/ \E t \in CommandTypes, d \in DailyOpts :
          Goal(Some(t), d, None, None, None, FALSE, FALSE)
    \/ \E t \in CommandTypes : Goal(Some(t), None, None, None, None, FALSE, TRUE)

SpecCommands == Init /\ [][NextCommands]_vars

\* C21: a command that fails validation mutates nothing: add with a date
\* that is not in YYYY-MM-DD format, add of an exercise type that is not
\* defined and not given as custom, and goal for an exercise type that is not
\* defined each leave entries, goals, goal history and exercise types as they
\* were.
C21_FailedValidationMutatesNothing ==
    [][((/\ out'.cmd = "add"
         /\ \/ ~validate_date(out'.date)
            \/ (out'.exercise_type \notin DOMAIN exercise_types /\ ~out'.custom))
        \/ (/\ out'.cmd = "goal"
            /\ out'.exercise_type[1] \notin DOMAIN exercise_types))
       => data' = data]_vars

\* a failed add or goal on a dataset that holds entries and a goal history
C21_Witness ==
    /\ entries # <<>>
    /\ goal_history # EmptyDict
    /\ \/ out.cmd = "add" /\ out.status = "bad date"
       \/ out.cmd = "add" /\ out.status = "unknown type"
       \/ out.cmd = "goal" /\ out.status = "unknown type"

\* C22: after any sequence of add commands, whatever integers were given on
\* the command line or at the prompts, every persisted entry has
\* amount >= 0 and sets >= 1.
C22_EntriesNonNegative ==
    \A i \in 1..Len(entries) :
        \A j \in 1..Len(entries[i].list) :
            entries[i].list[j].amount >= 0 /\ entries[i].list[j].sets >= 1


(***************************************************************************)
(* data.py: saving a dataset and loading it again                          *)
(***************************************************************************)
\* the most <<date, entry>> pairs of a saved dataset
MaxFile == 2

\* data.py, "Update existing goals with new fields if needed"
MigratedGoal(goal_data) ==
    [k \in DOMAIN goal_data \cup {"sets", "weight", "effective_date"} |->
        IF k \in DOMAIN goal_data THEN goal_data[k]
        ELSE CASE k = "sets" -> 3
               [] k = "weight" -> FZero
               [] OTHER -> EpochDay]

\* data.py, the loop over data["goals"] of ensure_data_file_exists
Migrated(gs) == [t \in DOMAIN gs |-> MigratedGoal(gs[t])]

\* the dataset ensure_data_file_exists writes when there is no data file
SeededData ==
    [entries |-> <<>>, goals |-> DefaultGoals, goal_history |-> EmptyDict,
     exercise_types |-> DefaultExerciseTypes]

\* data.py: the content of the data file after ensure_data_file_exists; file
\* is None when the file does not exist, else Some(the JSON object in it).
\* Files of the old structure, with a flat list of entries, are not among
\* the files of the model.
ensure_data_file_exists(file) ==
    IF file = None THEN SeededData
    ELSE [entries |-> file[1].entries,
          goals |-> Migrated(Get(file[1], "goals", DefaultGoals)),
          goal_history |-> Get(file[1], "goal_history", EmptyDict),
          exercise_types |-> Get(file[1], "exercise_types",
                                 DefaultExerciseTypes)]

\* data.py: load_data returns what json.load reads from the file that
\* ensure_data_file_exists left.  json.dump and json.load keep a tree of
\* dicts with string keys, lists, strings, ints and finite floats as it is,
\* the dicts in insertion order.
load_data(file) == ensure_data_file_exists(file)

\* data.py: the data file after save_data(d)
save_data(d) == Some(d)

FileEntryVals ==
    {[exercise_type |-> "pushup", amount |-> 29, unit |-> "reps",
      weight |-> FZero, sets |-> 1],
     [exercise_type |-> "curl", amount |-> 4, unit |-> "reps",
      weight |-> Tenths(25), sets |-> 3]}

\* data["goals"] of a dataset: none, the seeded goals, and goals for pushup
\* with and without the sets, weight and effective_date keys
FileGoals ==
    {EmptyDict, DefaultGoals}
    \cup {[t \in {"pushup"} |-> g] :
            g \in {[daily |-> 50],
                   [daily |-> 50, sets |-> 1, weight |-> FZero],
                   [weekly |-> 100, sets |-> 1, weight |-> FZero,
                    effective_date |-> EpochDay + 1]}}

FileHistories ==
    {EmptyDict}
    \cup {[t \in {"pushup"} |-> <<g>>] :
            g \in {[daily |-> 10],
                   [daily |-> 10, sets |-> 3, weight |-> FZero,
                    effective_date |-> EpochDay]}}

FileExerciseTypes ==
    {DefaultExerciseTypes, SetKey(DefaultExerciseTypes, "yoga", "seconds")}

FileDatasets ==
    {[entries |-> es, goals |-> gs, goal_history |-> h, exercise_types |-> ts] :
       es \in {Dataset(p, 1, <<>>) :
                 p \in SeqsUpTo({EpochDay, EpochDay + 1} \X FileEntryVals,
                                MaxFile)},
       gs \in FileGoals, h \in FileHistories, ts \in FileExerciseTypes}

\* save_data(d) followed by load_data()
SaveLoad(d) ==
    LET loaded == load_data(save_data(d))
    IN  /\ entries' = loaded.entries
        /\ goals' = loaded.goals
        /\ goal_history' = loaded.goal_history
        /\ exercise_types' = loaded.exercise_types
        /\ out' = [cmd |-> "load_data", saved |-> d, loaded |-> loaded]
        /\ UNCHANGED <<today, procs>>

NextFile == \E d \in FileDatasets : SaveLoad(d)

SpecFile == Init /\ [][NextFile]_vars

\* C23: round trip: for every dataset d, load_data() after save_data(d)
\* returns a dataset equal to d over entries, goals, goal history and
\* exercise types.
C23_RoundTrip ==
    out.cmd = "load_data" => out.loaded = out.saved


(***************************************************************************)
(* Two add commands that run as processes of their own: each loads the     *)
(* data file, changes the dataset it holds in memory, and saves it         *)
(***************************************************************************)
\* the data file as the dataset json.load reads from it
File ==
    [entries |-> entries, goals |-> goals, goal_history |-> goal_history,
     exercise_types |-> exercise_types]

\* the steps the processes have taken so far
RECURSIVE StepsOf(_)
StepsOf(S) ==
    IF S = {} THEN 0
    ELSE LET p == CHOOSE p \in S : TRUE
         IN  (CASE procs[p].pc = "idle" -> 0
                [] procs[p].pc = "loaded" -> 1
                [] OTHER -> 2) + StepsOf(S \ {p})

\* a process that reads the data file again when it is about to save
Held_Reread(p) == File

\* the dataset a process saves: the one it holds in memory, whatever the
\* file holds by then
Held(p) == procs[p].data

\* add.py l.31: data = load_data()
LoadStep(p) ==
    LET loaded == load_data(Some(File))
    IN  /\ procs[p].pc = "idle"
        /\ procs' = [procs EXCEPT ![p] =
                        [pc |-> "loaded", data |-> loaded,
                         loaded_at |-> StepsOf(Procs) + 1]]
        /\ entries' = loaded.entries
        /\ goals' = loaded.goals
        /\ goal_history' = loaded.goal_history
        /\ exercise_types' = loaded.exercise_types
        /\ out' = [cmd |-> "add", status |-> "loaded", process |-> p]
        /\ UNCHANGED today

\* add.py l.34-123: the entry appended to the dataset in memory, and
\* save_data(data)
SaveStep(p, exercise_type, date, amount, sets) ==
    LET mem      == Held(p)
        the_date == IF date = None THEN today ELSE date[1]
        entry    == NewEntry(exercise_type, amount,
                             mem.exercise_types[exercise_type],
                             Get(Get(mem.goals, exercise_type, EmptyDict),
                                 "weight", FZero),
                             sets)
        saved    == [mem EXCEPT !.entries = AppendEntry(@, the_date, entry)]
        file     == save_data(saved)[1]
    IN  /\ procs[p].pc = "loaded"
        /\ procs' = [procs EXCEPT ![p] =
                        [pc |-> "done", data |-> saved,
                         date |-> the_date, entry |-> entry,
                         loaded_at |-> procs[p].loaded_at,
                         saved_at |-> StepsOf(Procs) + 1]]
        /\ entries' = file.entries
        /\ goals' = file.goals
        /\ goal_history' = file.goal_history
        /\ exercise_types' = file.exercise_types
        /\ out' = [cmd |-> "add", status |-> "added", process |-> p]
        /\ UNCHANGED today

\* each process adds pushups of its own amounts
ConcurrentAmounts(p) == {10 * p + 1, 10 * p + 2, 10 * p + 3}

ConcurrentDates == {None, Some(EpochDay + 1)}

NextConcurrent ==
    \/ \E p \in Procs : LoadStep(p)
    \/ \E p \in Procs, d \in ConcurrentDates :
          \E a \in ConcurrentAmounts(p) : SaveStep(p, "pushup", d, a, 1)

SpecConcurrent == Init /\ [][NextConcurrent]_vars

\* the entries of a date as a set
OnDate(es, date) ==
    {EntriesOn(es, date)[i] : i \in 1..Len(EntriesOn(es, date))}

\* both commands have saved
BothDone == \A p \in Procs : procs[p].pc = "done"

\* both commands loaded the dataset before either saved
Raced ==
    BothDone /\ \A p, q \in Procs : procs[p].loaded_at < procs[q].saved_at

\* the command that saved last
LastSaver ==
    CHOOSE p \in Procs : \A q \in Procs : procs[q].saved_at <= procs[p].saved_at

\* C24: saving is last-writer-wins without locking: when two commands both
\* load the dataset before either saves, the persisted dataset after both
\* saves is the later saver's result and the earlier saver's entry is absent;
\* when the commands run one after the other, both entries are persisted.
C24_LastWriterWins ==
    BothDone =>
        /\ File = procs[LastSaver].data
        /\ \A p \in Procs :
              (procs[p].entry \in OnDate(entries, procs[p].date))
                 <=> (p = LastSaver \/ ~Raced)

\* both commands loaded before either saved, and both have saved
C24_Witness == Raced


(***************************************************************************)
(* stats.py                                                                *)
(***************************************************************************)
\* stats.py, "Filter entries by date range": the dates of data["entries"] in
\* the range with their entries, or their entries of the exercise type when
\* one is given; a date left with no entry is dropped (no --muscle)
StatsEntries(es, start_date, end_date, exercise) ==
    LET in_range == SelectSeq(es, LAMBDA r :
                       start_date <= r.date /\ r.date <= end_date)
        kept(list) == SelectSeq(list, LAMBDA e :
                         exercise = None \/ e.exercise_type = exercise[1])
        filtered == [i \in 1..Len(in_range) |->
                       [in_range[i] EXCEPT !.list = kept(@)]]
    IN  SelectSeq(filtered, LAMBDA r : r.list # <<>>)

\* stats.py, "Calculate goal achievement": the loop over date_range, from
\* date d, for one exercise type and its goal in data["goals"]
RECURSIVE AchievementLoop(_, _, _, _, _, _)
AchievementLoop(filtered_entries, exercise_type, goal_data, d, end_date, acc) ==
    IF d > end_date THEN acc
    ELSE LET total_reps == SumReps(EntriesOn(filtered_entries, d), 1,
                                   exercise_type)
             goal_sets  == Get(goal_data, "sets", 1)
             achieved   == HasDate(filtered_entries, d)
                           /\ total_reps >= goal_data.daily * goal_sets
         IN  AchievementLoop(filtered_entries, exercise_type, goal_data,
                d + 1, end_date,
                [days_with_goal |-> acc.days_with_goal + 1,
                 days_achieved  |-> acc.days_achieved
                                    + (IF achieved THEN 1 ELSE 0)])

\* a streak loop that keeps counting across a day without the exercise
RECURSIVE StreakLoop_NoReset(_, _, _, _, _)
StreakLoop_NoReset(filtered_entries, exercise_type, d, end_date, acc) ==
    IF d > end_date THEN acc
    ELSE LET list == EntriesOn(filtered_entries, d)
             has_exercise ==
                 \E i \in 1..Len(list) : list[i].exercise_type = exercise_type
             current == acc.current_streak + 1
         IN  StreakLoop_NoReset(filtered_entries, exercise_type, d + 1, end_date,
                IF has_exercise
                THEN [current_streak |-> current,
                      longest_streak |->
                          IF acc.longest_streak > current
                          THEN acc.longest_streak ELSE current,
                      last_date |-> Some(d)]
                ELSE acc)

\* stats.py, "Calculate streak analysis": the loop over sorted(date_range),
\* from date d, for one exercise type
RECURSIVE StreakLoop(_, _, _, _, _)
StreakLoop(filtered_entries, exercise_type, d, end_date, acc) ==
    IF d > end_date THEN acc
    ELSE LET list == EntriesOn(filtered_entries, d)
             has_exercise ==
                 \E i \in 1..Len(list) : list[i].exercise_type = exercise_type
             current == IF acc.last_date = None \/ d - acc.last_date[1] = 1
                        THEN acc.current_streak + 1
                        ELSE 1
         IN  StreakLoop(filtered_entries, exercise_type, d + 1, end_date,
                IF has_exercise
                THEN [current_streak |-> current,
                      longest_streak |->
                          IF acc.longest_streak > current
                          THEN acc.longest_streak ELSE current,
                      last_date |-> Some(d)]
                ELSE [current_streak |-> 0,
                      longest_streak |-> acc.longest_streak,
                      last_date |-> None])

\* stats.py: training stats [--days N] [--month] [--exercise E] (no --muscle,
\* no --output): goal_achievement and streak_analysis
Stats(days, month, exercise) ==
    LET end_date   == today
        start_date == IF month THEN StartOfMonth(today) ELSE today - (days - 1)
        filtered_entries == StatsEntries(entries, start_date, end_date, exercise)
        \* the keys of exercise_summary
        summarized ==
            UNION {{filtered_entries[i].list[j].exercise_type :
                       j \in 1..Len(filtered_entries[i].list)} :
                     i \in 1..Len(filtered_entries)}
        with_daily ==
            {t \in DOMAIN goals :
                /\ exercise = None \/ exercise[1] = t
                /\ Get(goals[t], "daily", 0) > 0
                /\ start_date <= end_date}
        counted(t) ==
            AchievementLoop(filtered_entries, t, goals[t], start_date, end_date,
                            [days_with_goal |-> 0, days_achieved |-> 0])
        goal_achievement ==
            [t \in with_daily |->
                [days_with_goal |-> counted(t).days_with_goal,
                 days_achieved  |-> counted(t).days_achieved]]
        streaks(t) ==
            StreakLoop(filtered_entries, t, start_date, end_date,
                       [current_streak |-> 0, longest_streak |-> 0,
                        last_date |-> None])
        streak_analysis ==
            [t \in summarized |->
                [current_streak |-> streaks(t).current_streak,
                 longest_streak |-> streaks(t).longest_streak]]
    IN  /\ out' = IF filtered_entries = <<>>
                  THEN [cmd |-> "stats", status |-> "no entries"]
                  ELSE [cmd |-> "stats", status |-> "shown",
                        start_date |-> start_date,
                        end_date |-> end_date,
                        exercise |-> exercise,
                        goal_achievement |-> goal_achievement,
                        streak_analysis |-> streak_analysis]
        /\ UNCHANGED <<today, data, procs>>

\* the most <<date, entry>> pairs of a data file stats is run on
MaxStats == 3

\* the day stats is run on
StatsToday == MaxStats

\* the dates of the entries: the days of the widest range, and the day before
StatsDates == (StatsToday - MaxStats)..StatsToday

StatsEntryVals ==
    {[exercise_type |-> "pushup", amount |-> 40, unit |-> "reps",
      weight |-> FZero, sets |-> 1],
     [exercise_type |-> "squat", amount |-> 5, unit |-> "reps",
      weight |-> FZero, sets |-> 1]}

\* --days
StatsDays == {MaxStats, MaxStats + 1}

\* the goals of pushup: the seeded goal, or a goal set on the day before
\* stats is run, with the seeded goal in the history
StatsGoals ==
    {[goals |-> DefaultGoals, goal_history |-> EmptyDict],
     [goals |-> SetKey(DefaultGoals, "pushup",
                       [daily |-> 10, sets |-> 3, weight |-> FZero,
                        effective_date |-> StatsToday - 1]),
      goal_history |-> [t \in {"pushup"} |-> <<DefaultGoals["pushup"]>>]]}

InitStats ==
    /\ today = StatsToday
    /\ entries \in {Dataset(p, 1, <<>>) :
                      p \in SeqsUpTo(StatsDates \X StatsEntryVals, MaxStats)}
    /\ \E g \in StatsGoals : goals = g.goals /\ goal_history = g.goal_history
    /\ exercise_types = DefaultExerciseTypes
    /\ out = [cmd |-> "none"]
    /\ procs = NoProcs

NextStats ==
    \E days \in StatsDays, e \in {None, Some("pushup")} : Stats(days, FALSE, e)

SpecStats == InitStats /\ [][NextStats]_vars

\* the goal of the exercise type in effect on the date, by get_goal_for_date's
\* resolution over the history and the current goal
InEffect(t, d) ==
    IF t \in DOMAIN goals
    THEN ApplicableGoal(AllGoals(Get(goal_history, t, <<>>), goals[t]), d)
    ELSE None

\* the days of the range on which a goal of the type with a daily target was
\* in effect
DaysWithGoal(t, start_date, end_date) ==
    {d \in start_date..end_date :
        /\ InEffect(t, d) # None
        /\ Get(InEffect(t, d)[1], "daily", 0) > 0}

\* the days among them whose total reaches daily * sets of that goal
DaysAchieved(t, start_date, end_date) ==
    {d \in DaysWithGoal(t, start_date, end_date) :
        SumReps(EntriesOn(entries, d), 1, t)
            >= InEffect(t, d)[1].daily * Get(InEffect(t, d)[1], "sets", 1)}

\* C25: the goal achievement of stats counts, for each exercise type, the days
\* of the range on which a goal with a daily target was in effect, and among
\* them the days whose total reaches daily * sets of the goal in effect on
\* that day
C25_AchievementPerDay ==
    (out.cmd = "stats" /\ out.status = "shown") =>
        \A t \in DOMAIN goals :
            (out.exercise = None \/ out.exercise[1] = t) =>
                LET with == DaysWithGoal(t, out.start_date, out.end_date)
                    achieved == DaysAchieved(t, out.start_date, out.end_date)
                IN  IF with = {}
                    THEN t \notin DOMAIN out.goal_achievement
                    ELSE /\ t \in DOMAIN out.goal_achievement
                         /\ out.goal_achievement[t].days_with_goal
                                = Cardinality(with)
                         /\ out.goal_achievement[t].days_achieved
                                = Cardinality(achieved)

\* the exercise type has an entry on the date
Logged(t, d) ==
    \E i \in 1..Len(EntriesOn(entries, d)) :
        EntriesOn(entries, d)[i].exercise_type = t

\* the length of the run of consecutive days with an entry of the type that
\* ends on day d, within the range from start_date
RunEndingOn(t, start_date, d) ==
    Cardinality({k \in start_date..d : \A j \in k..d : Logged(t, j)})

\* C30: for each exercise type with an entry in the range of stats,
\* longest_streak is the length of the longest run of consecutive days of the
\* range with an entry of the type, and current_streak is the length of the
\* run that ends on the last day of the range
C30_Streaks ==
    (out.cmd = "stats" /\ out.status = "shown") =>
        LET range == out.start_date..out.end_date
            types == {t \in DOMAIN exercise_types :
                        /\ out.exercise = None \/ out.exercise[1] = t
                        /\ \E d \in range : Logged(t, d)}
        IN  /\ DOMAIN out.streak_analysis = types
            /\ \A t \in types :
                  LET streak == out.streak_analysis[t]
                  IN  /\ \E d \in range :
                            streak.longest_streak
                                = RunEndingOn(t, out.start_date, d)
                      /\ \A d \in range :
                            streak.longest_streak
                                >= RunEndingOn(t, out.start_date, d)
                      /\ streak.current_streak
                            = RunEndingOn(t, out.start_date, out.end_date)
                      /\ 0 <= streak.current_streak
                      /\ streak.current_streak <= streak.longest_streak
                      /\ streak.longest_streak <= Cardinality(range)

\* stats has shown a type with a run of two days, a day without it, and a run
\* of one day that ends on the last day
C30_Witness ==
    /\ out.cmd = "stats"
    /\ out.status = "shown"
    /\ "pushup" \in DOMAIN out.streak_analysis
    /\ out.streak_analysis["pushup"].longest_streak = 2
    /\ out.streak_analysis["pushup"].current_streak = 1

\* the dates of a dataset
DatesOf(es) == {es[i].date : i \in 1..Len(es)}

\* add has saved an entry
AddSaved(o) == o.cmd = "add" /\ o.status \notin {"bad date", "unknown type"}

\* C26: an add that saves leaves, under its date, the list the date had (none
\* if the date was absent) with one entry of the added type put last; it
\* leaves the list of every other date, the goals and the goal history as
\* they were
C26_AddAppendsLast ==
    [][AddSaved(out') =>
         LET D   == out'.date[1]
             old == EntriesOn(entries, D)
             new == EntriesOn(entries', D)
         IN  /\ Len(new) = Len(old) + 1
             /\ SubSeq(new, 1, Len(old)) = old
             /\ new[Len(new)].exercise_type = out'.exercise_type
             /\ DatesOf(entries') = DatesOf(entries) \cup {D}
             /\ \A d \in DatesOf(entries) \ {D} :
                   EntriesOn(entries', d) = EntriesOn(entries, d)
             /\ goals' = goals
             /\ goal_history' = goal_history]_vars

\* an add has saved an entry behind a different entry of its date, with an
\* entry under another date
C26_Witness ==
    /\ AddSaved(out)
    /\ Len(entries) = 2
    /\ LET list == EntriesOn(entries, out.date[1])
       IN  Len(list) >= 2 /\ list[1] # list[Len(list)]

\* C27: goal with an exercise type and none of --daily, --weekly, --sets,
\* --weight, --delete only shows the goal: the data file is left as it was
C27_GoalViewChangesNothing ==
    [][(/\ out'.cmd = "goal"
        /\ out'.exercise_type # None
        /\ ~out'.options
        /\ ~out'.delete)
       => data' = data]_vars

\* C28: a goal command leaves the history of each exercise type as it was, or
\* puts behind it the goal the data file held for the type before the command
C28_HistoryHoldsPersistedGoals ==
    [][out'.cmd = "goal" =>
         \A t \in DOMAIN goal_history' :
            LET old == Get(goal_history, t, <<>>)
                new == goal_history'[t]
            IN  \/ new = old
                \/ t \in DOMAIN goals /\ new = Append(old, goals[t])]_vars

\* the goal has no daily target, a weekly target above 0 and sets of at
\* least 1
WeeklyOnlyGoal(goal_data) ==
    /\ Get(goal_data, "daily", 0) = 0
    /\ Get(goal_data, "weekly", 0) > 0
    /\ Get(goal_data, "sets", 1) >= 1

=============================================================================
